---- MODULE Spec2Model ----
(***************************************************************************)
(* A model of the Rhino2D puppeteering engine (crate rhino2d-engine):      *)
(* parameter lowering and validation, the lock-free parameter handles,     *)
(* grid interpolation, the node tree update pass and the render buffer.    *)
(*                                                                         *)
(* f32 values are modelled as exact rationals plus the IEEE specials:      *)
(*   <<"num", n, d>>   the rational n/d, d > 0, in lowest terms            *)
(*   <<"inf", s, 0>>   infinity of sign s                                  *)
(*   <<"nan", s, p>>   a NaN of sign s and mantissa payload p              *)
(* Rounding and the negative zero are not modelled.                        *)
(***************************************************************************)
EXTENDS Integers, Sequences, FiniteSets, TLC

\* ------------------------------------------------------------------ f32

Abs(i) == IF i < 0 THEN -i ELSE i

Sgn(i) == IF i < 0 THEN -1 ELSE IF i = 0 THEN 0 ELSE 1

RECURSIVE Gcd(_, _)
Gcd(a, b) == IF b = 0 THEN a ELSE Gcd(b, a % b)

\* The f32 with value n/d (d # 0), in lowest terms.
Num(n, d) ==
    LET g == Gcd(Abs(n), Abs(d))
    IN  <<"num", (Sgn(d) * n) \div g, Abs(d) \div g>>

Zero == <<"num", 0, 1>>

One == <<"num", 1, 1>>

\* f32::NAN, the quiet NaN 0x7FC00000: positive sign, payload 2^22.
NaN == <<"nan", 1, 4194304>>

Inf(s) == <<"inf", s, 0>>

IsNaN(a) == a[1] = "nan"

IsInf(a) == a[1] = "inf"

IsNum(a) == a[1] = "num"

\* The sign of a non-NaN value: -1, 0 or 1.
SignOf(a) == IF IsNum(a) THEN Sgn(a[2]) ELSE a[2]

\* Unary minus: flips the sign bit, of a NaN too.
FNeg(a) == IF IsNum(a) THEN <<"num", -a[2], a[3]>> ELSE <<a[1], -a[2], a[3]>>

\* IEEE addition: a NaN operand propagates, inf + -inf is NaN.
FAdd(a, b) ==
    IF IsNaN(a) THEN a
    ELSE IF IsNaN(b) THEN b
    ELSE IF IsInf(a) /\ IsInf(b) THEN (IF a[2] = b[2] THEN a ELSE NaN)
    ELSE IF IsInf(a) THEN a
    ELSE IF IsInf(b) THEN b
    ELSE Num(a[2] * b[3] + b[2] * a[3], a[3] * b[3])

FSub(a, b) ==
    IF IsNaN(a) THEN a
    ELSE IF IsNaN(b) THEN b
    ELSE FAdd(a, FNeg(b))

\* IEEE multiplication: 0 * inf is NaN.
FMul(a, b) ==
    IF IsNaN(a) THEN a
    ELSE IF IsNaN(b) THEN b
    ELSE IF IsInf(a) \/ IsInf(b)
         THEN (IF SignOf(a) = 0 \/ SignOf(b) = 0 THEN NaN
               ELSE Inf(SignOf(a) * SignOf(b)))
    ELSE Num(a[2] * b[2], a[3] * b[3])

\* IEEE division: 0/0 and inf/inf are NaN, x/0 is an infinity.
FDiv(a, b) ==
    IF IsNaN(a) THEN a
    ELSE IF IsNaN(b) THEN b
    ELSE IF IsInf(a) THEN (IF IsInf(b) THEN NaN
                           ELSE Inf(a[2] * (IF SignOf(b) < 0 THEN -1 ELSE 1)))
    ELSE IF IsInf(b) THEN Zero
    ELSE IF b[2] = 0 THEN (IF a[2] = 0 THEN NaN ELSE Inf(Sgn(a[2])))
    ELSE Num(a[2] * b[3], a[3] * b[2])

\* The f32 operator == : false when either side is a NaN.
FEq(a, b) == ~IsNaN(a) /\ ~IsNaN(b) /\ a = b

\* The f32 operator > (PartialOrd): false when either side is a NaN.
FGt(a, b) ==
    IF IsNaN(a) \/ IsNaN(b) THEN FALSE
    ELSE IF IsInf(a) THEN a[2] = 1 /\ a # b
    ELSE IF IsInf(b) THEN b[2] = -1
    ELSE a[2] * b[3] > b[2] * a[3]

FGe(a, b) == FGt(a, b) \/ FEq(a, b)

\* f32::min and f32::max: a NaN operand is ignored in favour of the other.
FMin(a, b) == IF IsNaN(a) THEN b ELSE IF IsNaN(b) THEN a ELSE IF FGt(a, b) THEN b ELSE a

FMax(a, b) == IF IsNaN(a) THEN b ELSE IF IsNaN(b) THEN a ELSE IF FGt(b, a) THEN b ELSE a

\* f32::partial_cmp.
PartialCmp(a, b) ==
    IF IsNaN(a) \/ IsNaN(b) THEN "None"
    ELSE IF FGt(a, b) THEN "Greater"
    ELSE IF FGt(b, a) THEN "Less"
    ELSE "Equal"

\* f32::total_cmp, the IEEE 754 totalOrder predicate:
\* -NaN < -inf < finite < +inf < +NaN, NaNs of one sign ordered by payload.
TotalRank(a) == IF IsNaN(a) THEN 2 * a[2] ELSE IF IsInf(a) THEN a[2] ELSE 0

TotalCmp(a, b) ==
    IF TotalRank(a) # TotalRank(b)
    THEN (IF TotalRank(a) < TotalRank(b) THEN "Less" ELSE "Greater")
    ELSE IF IsNaN(a)
    THEN (IF a[3] = b[3] THEN "Equal"
          ELSE IF (a[3] < b[3]) = (a[2] = 1) THEN "Less" ELSE "Greater")
    ELSE IF IsInf(a) THEN "Equal"
    ELSE PartialCmp(a, b)

\* ------------------------------------------------- bit patterns (atomic.rs)
\* A u32 is modelled as two 16-bit limbs <<lo, hi>> and a u64 as four limbs
\* <<l0, l1, l2, l3>>, least significant first.

RECURSIVE Pow2(_)
Pow2(k) == IF k = 0 THEN 1 ELSE 2 * Pow2(k - 1)

\* The binary exponent e of m/d > 0: 2^e <= m/d < 2^(e+1).
RECURSIVE Log2Floor(_, _)
Log2Floor(m, d) ==
    IF m >= 2 * d THEN 1 + Log2Floor(m, 2 * d)
    ELSE IF m < d THEN Log2Floor(2 * m, d) - 1
    ELSE 0

\* sign, biased exponent and mantissa packed into the two limbs of a u32.
Limbs32(sign, exp, mant) ==
    <<mant % 65536, sign * 32768 + exp * 128 + (mant \div 65536)>>

\* f32::to_bits, for the values an f32 holds exactly (dyadic rationals in the
\* normal range, zero, the infinities and the NaNs).
ToBits(a) ==
    IF IsNaN(a) THEN Limbs32(IF a[2] < 0 THEN 1 ELSE 0, 255, a[3])
    ELSE IF IsInf(a) THEN Limbs32(IF a[2] < 0 THEN 1 ELSE 0, 255, 0)
    ELSE IF a[2] = 0 THEN Limbs32(0, 0, 0)
    ELSE LET m == Abs(a[2])
             e == Log2Floor(m, a[3])
             mant == IF e >= 0
                     THEN (m * Pow2(23 - e)) \div a[3] - Pow2(23)
                     ELSE (m * Pow2(-e) * Pow2(23)) \div a[3] - Pow2(23)
         IN  Limbs32(IF a[2] < 0 THEN 1 ELSE 0, e + 127, mant)

\* sig * 2^shift as an f32 value.
RECURSIVE Scale(_, _, _)
Scale(sign, sig, shift) ==
    IF shift < 0 /\ sig % 2 = 0 /\ sig # 0 THEN Scale(sign, sig \div 2, shift + 1)
    ELSE IF shift < 0 THEN Num(sign * sig, Pow2(-shift))
    ELSE Num(sign * sig * Pow2(shift), 1)

\* f32::from_bits.
FromBits(u) ==
    LET sign == IF u[2] \div 32768 = 1 THEN -1 ELSE 1
        exp  == (u[2] % 32768) \div 128
        mant == (u[2] % 128) * 65536 + u[1]
    IN  IF exp = 255 THEN (IF mant = 0 THEN Inf(sign) ELSE <<"nan", sign, mant>>)
        ELSE IF exp = 0 /\ mant = 0 THEN Zero
        ELSE IF exp = 0 THEN Scale(sign, mant, -149)
        ELSE Scale(sign, Pow2(23) + mant, exp - 150)

\* u64::from(x.to_bits()) | (u64::from(y.to_bits()) << 32)
f32x2_to_u64(x, y) == ToBits(x) \o ToBits(y)

\* [from_bits(u as u32), from_bits((u >> 32) as u32)]
u64_to_f32x2(u) == <<FromBits(<<u[1], u[2]>>), FromBits(<<u[3], u[4]>>)>>

\* A faulty AtomicF32x2::new that starts the cell at (0.0, 0.0).
AtomicF32x2_new_zeroed(x, y) == f32x2_to_u64(Zero, Zero)

\* AtomicF32::new and AtomicF32x2::new: the word the atomic cell starts with.
AtomicF32_new(value) == ToBits(value)

AtomicF32x2_new(x, y) == f32x2_to_u64(x, y)

\* AtomicF32::load and AtomicF32x2::load of a cell holding the word u.
AtomicF32_load(u) == FromBits(u)

AtomicF32x2_load(u) == u64_to_f32x2(u)

\* ------------------------------------------------------------ ord.rs

\* PartialOrd for TotalF32: delegates to f32::partial_cmp.
TotalF32_partial_cmp(a, b) == PartialCmp(a, b)

\* Ord for TotalF32: f32::total_cmp.
TotalF32_cmp(a, b) == TotalCmp(a, b)

\* The operator > on TotalF32 is PartialOrd::gt: partial_cmp == Some(Greater).
TotalF32_gt(a, b) == TotalF32_partial_cmp(a, b) = "Greater"

\* A faulty is_sorted that never advances `last` past the first element.
RECURSIVE is_sorted_from_stale(_, _, _)
is_sorted_from_stale(what, i, last) ==
    IF i > Len(what) THEN TRUE
    ELSE IF TotalF32_gt(last, what[i]) THEN FALSE
    ELSE is_sorted_from_stale(what, i + 1, last)

\* A faulty is_sorted that also refuses equal neighbours.
RECURSIVE is_sorted_from_strict(_, _, _)
is_sorted_from_strict(what, i, last) ==
    IF i > Len(what) THEN TRUE
    ELSE IF TotalF32_gt(last, what[i]) \/ FEq(last, what[i]) THEN FALSE
    ELSE is_sorted_from_strict(what, i + 1, what[i])

\* is_sorted: the loop of iter.all, `last` being the previous element.
RECURSIVE is_sorted_from(_, _, _)
is_sorted_from(what, i, last) ==
    IF i > Len(what) THEN TRUE
    ELSE IF TotalF32_gt(last, what[i]) THEN FALSE
    ELSE is_sorted_from(what, i + 1, what[i])

is_sorted(what) ==
    IF Len(what) = 0 THEN TRUE ELSE is_sorted_from(what, 2, what[1])

\* ------------------------------------------------------------ results

\* Result<T, Error>: Ok(v), or Err(kind) with kind the constructor that made
\* the error, Error::unsupported or Error::invalid.
Ok(v) == [ok |-> TRUE, val |-> v, err |-> "none"]

Err(kind) == [ok |-> FALSE, val |-> <<>>, err |-> kind]

Error_unsupported == Err("Unsupported")

Error_invalid == Err("Invalid")

\* ------------------------------------------------------------ param.rs

\* ParamTarget::from_str.
ParamTarget_from_str(s) ==
    CASE s = "zSort" -> Ok("ZSort")
      [] s = "transform.t.x" -> Ok("TranslationX")
      [] s = "transform.t.y" -> Ok("TranslationY")
      [] s = "transform.t.z" -> Ok("TranslationZ")
      [] s = "transform.r.x" -> Ok("RotationX")
      [] s = "transform.r.y" -> Ok("RotationY")
      [] s = "transform.r.z" -> Ok("RotationZ")
      [] s = "transform.s.x" -> Ok("ScaleX")
      [] s = "transform.s.y" -> Ok("ScaleY")
      [] OTHER -> Error_unsupported

\* A faulty ParamAxis::lower that leaves out the check of min against max.
ParamAxis_lower_unranged(param, index) ==
    LET axis_points == param.axis_points[index]
    IN  IF Len(axis_points) = 0 THEN Error_invalid
        ELSE IF ~FEq(axis_points[1], Zero) \/ ~FEq(axis_points[Len(axis_points)], One)
        THEN Error_invalid
        ELSE IF ~is_sorted(axis_points) THEN Error_invalid
        ELSE Ok([min |-> param.min[index], max |-> param.max[index],
                 axis_points |-> axis_points])

\* ParamAxis::lower(param, index); index counts from 1 here.
ParamAxis_lower(param, index) ==
    LET axis_points == param.axis_points[index]
        min == param.min[index]
        max == param.max[index]
    IN  IF Len(axis_points) = 0 THEN Error_invalid
        ELSE IF ~FEq(axis_points[1], Zero) \/ ~FEq(axis_points[Len(axis_points)], One)
        THEN Error_invalid
        ELSE IF ~is_sorted(axis_points) THEN Error_invalid
        ELSE IF FGt(min, max) THEN Error_invalid
        ELSE Ok([min |-> min, max |-> max, axis_points |-> axis_points])

\* The handle of ParamMap::lower (lines 24-38): the axes and the atomic cell
\* holding the declared defaults.
ParamHandle_lower(param) ==
    IF param.is_vec2
    THEN LET a0 == ParamAxis_lower(param, 1)
             a1 == ParamAxis_lower(param, 2)
         IN  IF ~a0.ok THEN a0
             ELSE IF ~a1.ok THEN a1
             ELSE Ok([dim |-> 2, axes |-> <<a0.val, a1.val>>,
                      value |-> AtomicF32x2_new(param.defaults[1], param.defaults[2])])
    ELSE LET a0 == ParamAxis_lower(param, 1)
         IN  IF ~a0.ok THEN a0
             ELSE Ok([dim |-> 1, axes |-> <<a0.val>>,
                      value |-> AtomicF32_new(param.defaults[1])])

\* A faulty row lowering that reads a deformation cell as the scalar 0.0.
RECURSIVE LowerRow_lenient(_, _, _)
LowerRow_lenient(row, i, acc) ==
    IF i > Len(row) THEN Ok(acc)
    ELSE IF row[i].kind = "Deformation" THEN LowerRow_lenient(row, i + 1, Append(acc, Zero))
    ELSE LowerRow_lenient(row, i + 1, Append(acc, row[i].f))

\* One row of a binding's grid (lines 55-62): the first deformation cell is
\* the error.
RECURSIVE LowerRow(_, _, _)
LowerRow(row, i, acc) ==
    IF i > Len(row) THEN Ok(acc)
    ELSE IF row[i].kind = "Deformation" THEN Error_unsupported
    ELSE LowerRow(row, i + 1, Append(acc, row[i].f))

\* The grid of a binding (lines 51-64).
RECURSIVE LowerValues(_, _, _)
LowerValues(values, j, acc) ==
    IF j > Len(values) THEN Ok(acc)
    ELSE LET r == LowerRow(values[j], 1, <<>>)
         IN  IF ~r.ok THEN r ELSE LowerValues(values, j + 1, Append(acc, r.val))

\* map.entry(node).or_default().push(b)
MapPush(map, node, b) ==
    IF node \in DOMAIN map
    THEN [map EXCEPT ![node] = Append(@, b)]
    ELSE [k \in DOMAIN map \cup {node} |-> IF k = node THEN <<b>> ELSE map[k]]

\* A faulty binding lowering that accepts every interpolation mode.
LowerBinding_any_mode(binding, h, map) ==
    LET t == ParamTarget_from_str(binding.param_name)
        v == LowerValues(binding.values, 1, <<>>)
    IN  IF ~t.ok THEN t
        ELSE IF ~v.ok THEN v
        ELSE Ok(MapPush(map, binding.node,
                        [param |-> h, target |-> t.val, values |-> v.val]))

\* One binding of ParamMap::lower (lines 41-65), h being the handle of its
\* parameter.
LowerBinding(binding, h, map) ==
    IF binding.interpolate_mode # "Linear" THEN Error_unsupported
    ELSE LET t == ParamTarget_from_str(binding.param_name)
             v == LowerValues(binding.values, 1, <<>>)
         IN  IF ~t.ok THEN t
             ELSE IF ~v.ok THEN v
             ELSE Ok(MapPush(map, binding.node,
                             [param |-> h, target |-> t.val, values |-> v.val]))

\* The loop over param.bindings() (line 40).
RECURSIVE LowerBindings(_, _, _, _)
LowerBindings(bindings, k, h, map) ==
    IF k > Len(bindings) THEN Ok(map)
    ELSE LET r == LowerBinding(bindings[k], h, map)
         IN  IF ~r.ok THEN r ELSE LowerBindings(bindings, k + 1, h, r.val)

\* The loop over the parameters (line 23). The handle of parameter i is
\* handles[i]: the Arc every binding of the parameter clones.
RECURSIVE LowerParams(_, _, _, _)
LowerParams(io, i, map, handles) ==
    IF i > Len(io) THEN Ok([map |-> map, handles |-> handles])
    ELSE LET handle == ParamHandle_lower(io[i])
         IN  IF ~handle.ok THEN handle
             ELSE LET r == LowerBindings(io[i].bindings, 1, i, map)
                  IN  IF ~r.ok THEN r
                      ELSE LowerParams(io, i + 1, r.val, Append(handles, handle.val))

\* ParamMap::lower.
ParamMap_lower(io) == LowerParams(io, 1, <<>>, <<>>)

\* A faulty extraction that copies the bindings and leaves them in the map.
take_params_copying(map, node) ==
    IF node \in DOMAIN map THEN <<map[node], map>> ELSE <<(<<>>), map>>

\* ParamMap::take_params_affecting_node: <<the bindings, the map without them>>.
take_params_affecting_node(map, node) ==
    IF node \in DOMAIN map
    THEN <<map[node], [k \in DOMAIN map \ {node} |-> map[k]]>>
    ELSE <<(<<>>), map>>

\* ------------------------------------------------------------ node.rs: Transform

\* A Matrix4<f32> is a 4-tuple of rows. The sines and cosines of a non-zero
\* angle are not rational, so a Transform is kept as the product it was built
\* as: a sequence of factors, each <<"mat", M>> with M an exactly known matrix
\* or <<"rot", <<rx, ry, rz>>>> standing for Matrix4::from_euler_angles of
\* angles that are not all zero. Adjacent known matrices are multiplied out
\* and identity matrices dropped, so the identity is the empty product and
\* two equal sequences denote equal matrices.
Sum4(a, b, c, d) == FAdd(FAdd(FAdd(a, b), c), d)

MatMul(A, B) ==
    [i \in 1..4 |-> [j \in 1..4 |->
        Sum4(FMul(A[i][1], B[1][j]), FMul(A[i][2], B[2][j]),
             FMul(A[i][3], B[3][j]), FMul(A[i][4], B[4][j]))]]

\* Matrix4::identity
Matrix4_identity ==
    <<<<One, Zero, Zero, Zero>>, <<Zero, One, Zero, Zero>>,
      <<Zero, Zero, One, Zero>>, <<Zero, Zero, Zero, One>>>>

\* Matrix4::new_nonuniform_scaling
new_nonuniform_scaling(sx, sy, sz) ==
    <<<<sx, Zero, Zero, Zero>>, <<Zero, sy, Zero, Zero>>,
      <<Zero, Zero, sz, Zero>>, <<Zero, Zero, Zero, One>>>>

\* Matrix4::new_translation: the translation is the last column.
new_translation(tx, ty, tz) ==
    <<<<One, Zero, Zero, tx>>, <<Zero, One, Zero, ty>>,
      <<Zero, Zero, One, tz>>, <<Zero, Zero, Zero, One>>>>

\* The product holding the one matrix M.
MatFactor(M) == IF M = Matrix4_identity THEN <<>> ELSE <<<<"mat", M>>>>

\* Matrix4::from_euler_angles: the identity for zero angles (cos 0 = 1,
\* sin 0 = 0), an opaque rotation otherwise.
from_euler_angles(rx, ry, rz) ==
    IF rx = Zero /\ ry = Zero /\ rz = Zero THEN <<>>
    ELSE <<<<"rot", <<rx, ry, rz>>>>>>

\* Transform::mul (self.mat * rhs.mat) on products.
Transform_mul(a, b) ==
    IF Len(a) = 0 THEN b
    ELSE IF Len(b) = 0 THEN a
    ELSE IF a[Len(a)][1] = "mat" /\ b[1][1] = "mat"
    THEN SubSeq(a, 1, Len(a) - 1)
         \o MatFactor(MatMul(a[Len(a)][2], b[1][2]))
         \o SubSeq(b, 2, Len(b))
    ELSE a \o b

\* Transform::identity
Transform_identity == <<>>

\* rhino2d_io::node::Transform::new
io_Transform_new == [trans |-> <<Zero, Zero, Zero>>, rot |-> <<Zero, Zero, Zero>>,
                     scale |-> <<One, One>>]

\* Transform::from_io: scaling * rotation * translation.
Transform_from_io(t) ==
    Transform_mul(
        Transform_mul(MatFactor(new_nonuniform_scaling(t.scale[1], t.scale[2], One)),
                      from_euler_angles(t.rot[1], t.rot[2], t.rot[3])),
        MatFactor(new_translation(t.trans[1], t.trans[2], t.trans[3])))

\* ------------------------------------------------------------ node.rs: construction

\* Node::from_io and NodeBase::from_io thread the &mut ParamMap through the
\* tree: the value of a successful result is <<node, the map left>>.
RECURSIVE Node_from_io(_, _)
RECURSIVE NodeBase_from_io(_, _, _)
RECURSIVE ChildrenFromIo(_, _, _, _)

\* io.children().iter().map(|ch| Node::from_io(params, ch)).collect::<Result<_>>()
ChildrenFromIo(params, chs, i, acc) ==
    IF i > Len(chs) THEN Ok(<<acc, params>>)
    ELSE LET r == Node_from_io(params, chs[i])
         IN  IF ~r.ok THEN r
             ELSE ChildrenFromIo(r.val[2], chs, i + 1, Append(acc, r.val[1]))

\* NodeBase::from_io; kind is the variant of Node that wraps the base.
NodeBase_from_io(params, io, kind) ==
    LET ch == ChildrenFromIo(params, io.children, 1, <<>>)
    IN  IF ~ch.ok THEN ch
        ELSE LET taken == take_params_affecting_node(ch.val[2], io.uuid)
             IN  Ok(<<[kind |-> kind,
                       uuid |-> io.uuid,
                       children |-> ch.val[1],
                       params |-> taken[1],
                       base_transform |-> Transform_from_io(io.transform),
                       base_zsort |-> io.zsort,
                       global_transform |-> Transform_identity,
                       zsort |-> io.zsort,
                       lock_to_root |-> io.lock_to_root],
                     taken[2]>>)

\* A faulty Node::from_io that builds a plain node for every unsupported type.
Node_from_io_lenient(params, io) ==
    CASE io.type = "Drawable" -> NodeBase_from_io(params, io, "Drawable")
      [] io.type = "Part" -> NodeBase_from_io(params, io, "Drawable")
      [] OTHER -> NodeBase_from_io(params, io, "Node")

\* Node::from_io; Drawable::from_io only wraps NodeBase::from_io.
Node_from_io(params, io) ==
    CASE io.type = "Node" -> NodeBase_from_io(params, io, "Node")
      [] io.type = "Drawable" -> NodeBase_from_io(params, io, "Drawable")
      [] io.type = "Part" -> NodeBase_from_io(params, io, "Drawable")
      [] OTHER -> Error_unsupported

\* ------------------------------------------------------------ lib.rs: construction

\* PuppetEngine::new. The handles are not a field of the engine: they are the
\* shared Arc cells the bindings of root_node point to.
PuppetEngine_new(puppet) ==
    LET param_map == ParamMap_lower(puppet.params)
    IN  IF ~param_map.ok THEN param_map
        ELSE LET root == Node_from_io(param_map.val.map, puppet.root_node)
             IN  IF ~root.ok THEN root
                 ELSE Ok([root_node |-> root.val[1],
                          render_buffer |-> <<>>,
                          handles |-> param_map.val.handles])

\* ------------------------------------------------------------ param.rs: evaluation

\* A computed f32, or the panic of an out-of-bounds slice index.
Val(v) == [panic |-> FALSE, v |-> v]

Panic == [panic |-> TRUE, v |-> Zero]

\* A faulty position that stops at the first breakpoint not below the value.
RECURSIVE position_ge(_, _, _)
position_ge(points, value, i) ==
    IF i > Len(points) THEN Len(points)
    ELSE IF FGe(points[i], value) THEN i - 1
    ELSE position_ge(points, value, i + 1)

\* axis_points.iter().position(|p| p > &value), as a 0-based index, or
\* Len(points) for None.
RECURSIVE position_gt(_, _, _)
position_gt(points, value, i) ==
    IF i > Len(points) THEN Len(points)
    ELSE IF FGt(points[i], value) THEN i - 1
    ELSE position_gt(points, value, i + 1)

\* The one element of a singleton: TheValue({e(x) : x \in {v}}) is e with
\* the local x bound to v, which is computed once.
TheValue(S) == CHOOSE v \in S : TRUE

\* ParamAxis::interp. start_index is 0-based as in the code.
ParamAxis_interp(axis, raw) ==
    TheValue({
        LET pos == position_gt(axis.axis_points, value, 1)
            larger_idx == IF pos = Len(axis.axis_points) THEN Len(axis.axis_points) - 1
                          ELSE pos
            smaller_idx == IF larger_idx = 0 THEN 0 ELSE larger_idx - 1
            larger_val == axis.axis_points[larger_idx + 1]
            smaller_val == axis.axis_points[smaller_idx + 1]
        IN  [start_index |-> smaller_idx,
             dist |-> FDiv(FSub(value, smaller_val), FSub(larger_val, smaller_val))]
        : value \in {FDiv(FSub(FMax(FMin(raw, axis.max), axis.min), axis.min),
                          FSub(axis.max, axis.min))}})

\* A faulty Interp::lookup that reads the second sample before it looks at
\* the distance.
Interp_lookup_eager(interp, values) ==
    IF interp.start_index + 1 >= Len(values) THEN Panic
    ELSE IF FGt(interp.dist, Zero)
    THEN Val(FAdd(FMul(values[interp.start_index + 1], FSub(One, interp.dist)),
                  FMul(values[interp.start_index + 2], interp.dist)))
    ELSE Val(values[interp.start_index + 1])

\* Interp::lookup: values[i] panics when i is not an index of the slice.
Interp_lookup(interp, values) ==
    IF interp.start_index >= Len(values) THEN Panic
    ELSE LET start == values[interp.start_index + 1]
         IN  IF FGt(interp.dist, Zero)
             THEN IF interp.start_index + 1 >= Len(values) THEN Panic
                  ELSE LET end == values[interp.start_index + 2]
                       IN  Val(FAdd(FMul(start, FSub(One, interp.dist)),
                                    FMul(end, interp.dist)))
             ELSE Val(start)

\* The pair of Interp that ParamBinding::value builds from the handle it
\* loads (lines 216-231): one atomic load of the cell.
ParamBinding_load(handle) ==
    IF handle.dim = 1
    THEN TheValue({<<ParamAxis_interp(handle.axes[1], x),
                     [start_index |-> 0, dist |-> Zero]>>
                   : x \in {AtomicF32_load(handle.value)}})
    ELSE TheValue({<<ParamAxis_interp(handle.axes[1], xy[1]),
                     ParamAxis_interp(handle.axes[2], xy[2])>>
                   : xy \in {AtomicF32x2_load(handle.value)}})

Min(a, b) == IF a < b THEN a ELSE b

\* ParamBinding::value, handle being the Arc cell self.param points to.
ParamBinding_value(binding, handle) ==
    TheValue({
        LET x == xy[1]
            y == xy[2]
        IN  IF y.start_index >= Len(binding.values) THEN Panic
            ELSE LET start == Interp_lookup(x, binding.values[y.start_index + 1])
                 IN  IF start.panic THEN Panic
                     ELSE IF FGt(y.dist, Zero)
                     THEN LET end_row == binding.values[Min(y.start_index + 1,
                                                            Len(binding.values) - 1) + 1]
                              end == Interp_lookup(x, end_row)
                          IN  IF end.panic THEN Panic
                              ELSE Val(FAdd(FMul(start.v, FSub(One, y.dist)),
                                            FMul(end.v, y.dist)))
                     ELSE start
        : xy \in {ParamBinding_load(handle)}})

\* ------------------------------------------------------------ node.rs: update

\* The arm of the match in NodeBase::update_self (lines 114-123): acc is
\* [zsort, param_tf], the locals of update_self.
ApplyTarget(acc, target, value) ==
    CASE target = "ZSort" -> [acc EXCEPT !.zsort = FAdd(@, value)]
      [] target = "TranslationX" -> [acc EXCEPT !.param_tf.trans[1] = FAdd(@, value)]
      [] target = "TranslationY" -> [acc EXCEPT !.param_tf.trans[2] = FAdd(@, value)]
      [] target = "TranslationZ" -> [acc EXCEPT !.param_tf.trans[3] = FAdd(@, value)]
      [] target = "RotationX" -> [acc EXCEPT !.param_tf.rot[1] = FAdd(@, value)]
      [] target = "RotationY" -> [acc EXCEPT !.param_tf.rot[2] = FAdd(@, value)]
      [] target = "RotationZ" -> [acc EXCEPT !.param_tf.rot[3] = FAdd(@, value)]
      [] target = "ScaleX" -> [acc EXCEPT !.param_tf.scale[1] = FAdd(@, value)]
      [] target = "ScaleY" -> [acc EXCEPT !.param_tf.scale[2] = FAdd(@, value)]

\* Faulty locals of update_self that start from the Z the node cached in
\* the update before.
UpdateSelfLocals_carried(node) == [zsort |-> node.zsort, param_tf |-> io_Transform_new]

\* The locals of update_self before its loop (lines 108-109).
UpdateSelfLocals(node) == [zsort |-> node.base_zsort, param_tf |-> io_Transform_new]

\* A faulty update_self that leaves the base transform out of the self
\* transform.
UpdateSelfFinish_no_base(node, acc, parent_transform) ==
    LET global == IF node.lock_to_root THEN Transform_from_io(acc.param_tf)
                  ELSE Transform_mul(Transform_from_io(acc.param_tf), parent_transform)
    IN  <<[node EXCEPT !.zsort = acc.zsort, !.global_transform = global],
          [node |-> node.uuid, transform |-> global, zsort |-> acc.zsort,
           deform |-> "None"]>>

\* A faulty update_self that composes with the parent's transform whatever
\* the lock_to_root flag says.
UpdateSelfFinish_unlocked(node, acc, parent_transform) ==
    LET global == Transform_mul(
                      Transform_mul(node.base_transform, Transform_from_io(acc.param_tf)),
                      parent_transform)
    IN  <<[node EXCEPT !.zsort = acc.zsort, !.global_transform = global],
          [node |-> node.uuid, transform |-> global, zsort |-> acc.zsort,
           deform |-> "None"]>>

\* update_self after its loop (lines 126-140): <<the node, the command pushed>>.
UpdateSelfFinish(node, acc, parent_transform) ==
    LET self_transform == Transform_mul(node.base_transform, Transform_from_io(acc.param_tf))
        global == IF node.lock_to_root THEN self_transform
                  ELSE Transform_mul(self_transform, parent_transform)
    IN  <<[node EXCEPT !.zsort = acc.zsort, !.global_transform = global],
          [node |-> node.uuid, transform |-> global, zsort |-> acc.zsort,
           deform |-> "None"]>>

\* The node at a path of child indices, the root being at <<>>.
RECURSIVE NodeAt(_, _)
NodeAt(node, path) ==
    IF Len(path) = 0 THEN node ELSE NodeAt(node.children[path[1]], Tail(path))

\* The tree with the node at path replaced.
RECURSIVE SetNodeAt(_, _, _)
SetNodeAt(node, path, new) ==
    IF Len(path) = 0 THEN new
    ELSE [node EXCEPT !.children[path[1]] = SetNodeAt(@, Tail(path), new)]

Front(s) == SubSeq(s, 1, Len(s) - 1)

\* Where update_recursive goes once the loop over the children of the node
\* at path is over: the next sibling of the nearest ancestor that has one.
RECURSIVE NextSibling(_, _)
NextSibling(root, path) ==
    IF Len(path) = 0 THEN [done |-> TRUE, path |-> <<>>]
    ELSE IF path[Len(path)] < Len(NodeAt(root, Front(path)).children)
    THEN [done |-> FALSE, path |-> Front(path) \o <<path[Len(path)] + 1>>]
    ELSE NextSibling(root, Front(path))

\* The node update_recursive visits after update_self of the node at path.
NextVisit(root, path) ==
    IF Len(NodeAt(root, path).children) > 0
    THEN [done |-> FALSE, path |-> path \o <<1>>]
    ELSE NextSibling(root, path)

\* ------------------------------------------------------------ lib.rs: RenderBuffer

\* A faulty sort key that leaves out the negation, sorting by ascending Z.
SortKey_ascending(cmd) == cmd.zsort

\* The key of RenderBuffer::finish: TotalF32(-cmd.zsort).
SortKey(cmd) == FNeg(cmd.zsort)

\* Vec::sort_by_key is a stable sort by Ord::cmp of the keys: a command goes
\* after every command whose key is less, and after the commands of equal
\* key that were in front of it.
SortedRank(commands, i) ==
    1 + Cardinality({j \in 1..Len(commands) :
          LET c == TotalF32_cmp(SortKey(commands[j]), SortKey(commands[i]))
          IN  c = "Less" \/ (c = "Equal" /\ j < i)})

\* RenderBuffer::finish
RenderBuffer_finish(commands) ==
    [p \in 1..Len(commands) |->
        commands[CHOOSE i \in 1..Len(commands) : SortedRank(commands, i) = p]]

\* RenderBuffer::push
RenderBuffer_push(commands, cmd) == Append(commands, cmd)

\* ------------------------------------------------------------ descriptions

\* The values the descriptions and the parameter writes are drawn from.
F(n) == Num(n, 1)

Half == Num(1, 2)

\* A rhino2d_io::node::Node.
IoNode(type, uuid, zsort, trans, lock_to_root, children) ==
    [type |-> type, uuid |-> uuid, zsort |-> zsort,
     transform |-> [trans |-> trans, rot |-> <<Zero, Zero, Zero>>, scale |-> <<One, One>>],
     lock_to_root |-> lock_to_root, children |-> children]

\* A rhino2d_io::ParamValue.
Scalar(f) == [kind |-> "Scalar", f |-> f]

Deformation == [kind |-> "Deformation", f |-> Zero]

ScalarRow(row) == [i \in 1..Len(row) |-> Scalar(row[i])]

ScalarGrid(grid) == [j \in 1..Len(grid) |-> ScalarRow(grid[j])]

\* A rhino2d_io::ParamBinding.
IoBinding(node, param_name, values, mode) ==
    [node |-> node, param_name |-> param_name, values |-> values,
     interpolate_mode |-> mode]

\* A rhino2d_io::Param.
IoParam(is_vec2, min, max, defaults, axis_points, bindings) ==
    [is_vec2 |-> is_vec2, min |-> min, max |-> max, defaults |-> defaults,
     axis_points |-> axis_points, bindings |-> bindings]

\* Bounds of the model.
MaxLen == 3

MaxUpdates == 2

MaxWrites == 2

\* --- the descriptions construction is checked on (SpecNew)

AxisVals == {Zero, One, F(2), NaN}

\* Every breakpoint list of at most MaxLen values.
AxisLists == UNION {[1..n -> AxisVals] : n \in 0..MaxLen}

\* The breakpoint lists interp and value are called on: those, one with a
\* breakpoint inside the range, and one that descends around a NaN.
InterpLists == AxisLists \cup {<<Zero, Half, One>>, <<Zero, F(2), NaN, Zero, One>>}

\* <<min, max>> of the first axis: in order, out of order, equal.
MinMaxMenu == {<<Zero, One>>, <<One, Zero>>, <<One, One>>}

\* The second axis: that of a 1D parameter (the list [0.0], never lowered), a
\* valid one, and one whose minimum exceeds its maximum.
Axis2Menu ==
    {[is_vec2 |-> FALSE, points |-> <<Zero>>, min |-> Zero, max |-> Zero],
     [is_vec2 |-> TRUE, points |-> <<Zero, One>>, min |-> Zero, max |-> One],
     [is_vec2 |-> TRUE, points |-> <<Zero, One>>, min |-> One, max |-> Zero]}

GoodBinding == IoBinding(2, "transform.t.x", ScalarGrid(<<<<Zero, One>>>>), "Linear")

\* The bindings of a parameter: none, a supported one, one of each
\* unsupported kind (after a supported one, or aimed at a node id that is
\* not in the tree), and a supported one aimed at a node id that is not in
\* the tree.
BindingsMenu ==
    {<<>>,
     <<GoodBinding>>,
     <<GoodBinding, IoBinding(99, "zSort", ScalarGrid(<<<<Zero, One>>>>), "Nearest")>>,
     <<GoodBinding, IoBinding(99, "zSort", ScalarGrid(<<<<Zero, One>>>>), "Linear")>>,
     <<IoBinding(3, "deform", ScalarGrid(<<<<Zero, One>>>>), "Linear")>>,
     <<IoBinding(3, "zSort", <<<<Scalar(Zero), Deformation>>>>, "Linear")>>}

\* A parameter lowered before the one under test: none, one whose only
\* defect is an unsupported binding, one whose only defect is an invalid axis.
PrefixMenu ==
    {<<>>,
     <<IoParam(FALSE, <<Zero, Zero>>, <<One, Zero>>, <<Zero, Zero>>,
               <<<<Zero, One>>, <<Zero>>>>,
               <<IoBinding(2, "zSort", ScalarGrid(<<<<Zero, One>>>>), "Nearest")>>)>>,
     <<IoParam(FALSE, <<One, Zero>>, <<Zero, Zero>>, <<Zero, Zero>>,
               <<<<Zero, One>>, <<Zero>>>>, <<>>)>>}

\* The trees: every node supported, a grandchild of an unsupported type, or a
\* grandchild that repeats the id of its parent.
TreeMenu ==
    {IoNode("Node", 1, Zero, <<Zero, Zero, Zero>>, FALSE,
        <<IoNode("Drawable", 2, Zero, <<Zero, Zero, Zero>>, FALSE,
            <<IoNode(n3[1], n3[2], Zero, <<Zero, Zero, Zero>>, FALSE, <<>>)>>)>>)
     : n3 \in {<<"Part", 3>>, <<"Mask", 3>>, <<"Part", 2>>}}

Descriptions ==
    {[params |-> pre \o <<IoParam(a2.is_vec2, <<mm[1], a2.min>>, <<mm[2], a2.max>>,
                                  <<Zero, Zero>>, <<pts, a2.points>>, bs)>>,
      root_node |-> tree]
     : pre \in PrefixMenu, a2 \in Axis2Menu, mm \in MinMaxMenu, pts \in AxisLists,
       bs \in BindingsMenu, tree \in TreeMenu}

\* --- the puppets the update pass is checked on (Spec)

\* The grid of the transform.t.x binding: one cell per breakpoint, or a single
\* cell (the lowering does not compare a grid with the axes).
GridMenu == {<<<<Zero, F(5), F(10)>>>>, <<<<Zero>>>>}

\* Root 1 with the children 2 and 4, node 3 being the child of 2. A 1D
\* parameter drives zSort of node 2 and transform.t.x of node 3; a 2D
\* parameter with the defaults (1, 0) drives transform.r.z of node 2, the
\* parent of node 3.
Puppet(z3, lock3, grid) ==
    [params |->
        <<IoParam(FALSE, <<F(-1), Zero>>, <<One, Zero>>, <<Zero, Zero>>,
                  <<<<Zero, Half, One>>, <<Zero>>>>,
                  <<IoBinding(2, "zSort", ScalarGrid(<<<<F(-2), Zero, F(2)>>>>), "Linear"),
                    IoBinding(3, "transform.t.x", ScalarGrid(grid), "Linear")>>),
          IoParam(TRUE, <<Zero, Zero>>, <<One, One>>, <<One, Zero>>,
                  <<<<Zero, One>>, <<Zero, One>>>>,
                  <<IoBinding(2, "transform.r.z",
                              ScalarGrid(<<<<Zero, One>>, <<F(2), F(3)>>>>), "Linear")>>)>>,
     root_node |->
        IoNode("Node", 1, Zero, <<Zero, Zero, Zero>>, FALSE,
            <<IoNode("Drawable", 2, One, <<F(10), Zero, Zero>>, FALSE,
                <<IoNode("Part", 3, z3, <<Zero, One, Zero>>, lock3, <<>>)>>),
              IoNode("Node", 4, Zero, <<Zero, Zero, Zero>>, FALSE, <<>>)>>)]

\* Node 3 is a part with a finite Z that follows its parent, or one with a NaN
\* Z that is locked to the root.
Puppets ==
    {Puppet(n3[1], n3[2], grid) : n3 \in {<<One, FALSE>>, <<NaN, TRUE>>}, grid \in GridMenu}

\* A root with the identity transform and no binding, and one child 2 with
\* the base translation (tx, 0, 0), unit scale and no rotation, whose
\* transform.t.x is driven by a 1D parameter that is 5 at its default, the
\* midpoint of its range.
TwoNodePuppet(tx) ==
    [params |->
        <<IoParam(FALSE, <<F(-1), Zero>>, <<One, Zero>>, <<Zero, Zero>>,
                  <<<<Zero, Half, One>>, <<Zero>>>>,
                  <<IoBinding(2, "transform.t.x", ScalarGrid(<<<<Zero, F(5), F(10)>>>>),
                              "Linear")>>)>>,
     root_node |->
        IoNode("Node", 1, Zero, <<Zero, Zero, Zero>>, FALSE,
            <<IoNode("Node", 2, Zero, <<tx, Zero, Zero>>, FALSE, <<>>)>>)]

TwoNodePuppets == {TwoNodePuppet(tx) : tx \in {F(10), F(-5)}}

\* A chain: the root 1 is translated along X, its child 2 is locked to the
\* root and translated along Y, and 3, the child of 2, is translated along
\* Z. A 1D parameter drives transform.t.x of node 2.
LockedChainPuppet ==
    [params |->
        <<IoParam(FALSE, <<F(-1), Zero>>, <<One, Zero>>, <<Zero, Zero>>,
                  <<<<Zero, Half, One>>, <<Zero>>>>,
                  <<IoBinding(2, "transform.t.x", ScalarGrid(<<<<Zero, F(5), F(10)>>>>),
                              "Linear")>>)>>,
     root_node |->
        IoNode("Node", 1, Zero, <<One, Zero, Zero>>, FALSE,
            <<IoNode("Node", 2, Zero, <<Zero, One, Zero>>, TRUE,
                <<IoNode("Node", 3, Zero, <<Zero, Zero, One>>, FALSE, <<>>)>>)>>)]

\* The arguments of ParamHandle1D::set and of ParamHandle2D::set, and of update.
Set1DVals == {Half, F(3)}

Set2DVals == {<<Half, One>>, <<One, Half>>}

Deltas == {0, 16}

\* ------------------------------------------------------------ state

VARIABLES
    puppet,        \* the InochiPuppet given to PuppetEngine::new
    status,        \* "init" before PuppetEngine::new, then "ok" or "err"
    error,         \* the kind of the Error returned by PuppetEngine::new
    root_node,     \* PuppetEngine.root_node
    render_buffer, \* PuppetEngine.render_buffer.commands
    handles,       \* the Arc<Param1D> / Arc<Param2D> cells, by parameter
    pc,            \* the update pass: "idle", "self" (in update_self), "panicked"
    path,          \* the node update_recursive is at
    pidx,          \* the binding the loop of update_self is at
    acc,           \* the locals zsort and param_tf of update_self
    returned,      \* the slice the last update call returned
    hist,          \* history of the run, read by the properties only
    probe          \* the arguments and results of the last direct calls of
                   \* ParamAxis::interp, Interp::lookup and ParamBinding::value

vars == <<puppet, status, error, root_node, render_buffer, handles, pc, path, pidx,
          acc, returned, hist, probe>>

NoProbe == [call |-> "none"]

NoAcc == [zsort |-> Zero, param_tf |-> io_Transform_new]

\* hist: updates = update calls begun; writes = set calls made; prev = the
\* slice returned by the call before the last; quiet = no set call since the
\* call before the last began; quiet_cur = none since the last began;
\* written[h] = the argument tuples of the set calls made on handle h;
\* raced = a set call was made while an update pass was running;
\* loaded = the values ParamBinding::value loaded from 2D handles, as <<h, pair>>.
\* A command in the buffer carries, as the field frame, the number of the
\* update call that pushed it.
InitHist ==
    [updates |-> 0, writes |-> 0, prev |-> <<>>, quiet |-> FALSE, quiet_cur |-> TRUE,
     written |-> <<>>, raced |-> FALSE, loaded |-> {}]

InitWith(descs) ==
    /\ puppet \in descs
    /\ status = "init"
    /\ error = "none"
    /\ root_node = <<>>
    /\ render_buffer = <<>>
    /\ handles = <<>>
    /\ pc = "idle"
    /\ path = <<>>
    /\ pidx = 1
    /\ acc = NoAcc
    /\ returned = <<>>
    /\ hist = InitHist
    /\ probe = NoProbe

Init == InitWith(Puppets \cup TwoNodePuppets \cup {LockedChainPuppet})

InitNew == InitWith(Descriptions)

\* ------------------------------------------------------------ actions

\* PuppetEngine::new(&puppet)
New ==
    /\ status = "init"
    /\ LET r == PuppetEngine_new(puppet)
       IN  IF r.ok
           THEN /\ status' = "ok"
                /\ error' = "none"
                /\ root_node' = r.val.root_node
                /\ render_buffer' = r.val.render_buffer
                /\ handles' = r.val.handles
                /\ hist' = [hist EXCEPT !.written = [h \in 1..Len(r.val.handles) |-> {}]]
           ELSE /\ status' = "err"
                /\ error' = r.err
                /\ UNCHANGED <<root_node, render_buffer, handles, hist>>
    /\ UNCHANGED <<probe, puppet, pc, path, pidx, acc, returned>>

\* AtomicF32::store
AtomicF32_store(cell, value) == ToBits(value)

\* A faulty AtomicF32x2::store that writes the two halves separately and is
\* seen after the first: the X half is new, the Y half still the old one.
AtomicF32x2_store_torn(cell, x, y) == ToBits(x) \o SubSeq(cell, 3, 4)

\* AtomicF32x2::store
AtomicF32x2_store(cell, x, y) == f32x2_to_u64(x, y)

\* A faulty ParamHandle1D::set that also discards the queued render commands.
Set1D_dirty(h, value) ==
    /\ status = "ok"
    /\ hist.writes < MaxWrites
    /\ h \in 1..Len(handles)
    /\ handles[h].dim = 1
    /\ handles' = [handles EXCEPT ![h].value = AtomicF32_store(@, value)]
    /\ render_buffer' = <<>>
    /\ hist' = [hist EXCEPT !.writes = @ + 1, !.quiet_cur = FALSE,
                            !.raced = @ \/ pc = "self",
                            !.written[h] = @ \cup {<<value>>}]
    /\ UNCHANGED <<probe, puppet, status, error, root_node, pc, path, pidx,
                   acc, returned>>

\* ParamHandle1D::set(value) on the handle of parameter h, from any thread.
Set1D(h, value) ==
    /\ status = "ok"
    /\ hist.writes < MaxWrites
    /\ h \in 1..Len(handles)
    /\ handles[h].dim = 1
    /\ handles' = [handles EXCEPT ![h].value = AtomicF32_store(@, value)]
    /\ hist' = [hist EXCEPT !.writes = @ + 1, !.quiet_cur = FALSE,
                            !.raced = @ \/ pc = "self",
                            !.written[h] = @ \cup {<<value>>}]
    /\ UNCHANGED <<probe, puppet, status, error, root_node, render_buffer, pc, path, pidx,
                   acc, returned>>

\* ParamHandle2D::set(x, y) on the handle of parameter h, from any thread.
Set2D(h, x, y) ==
    /\ status = "ok"
    /\ hist.writes < MaxWrites
    /\ h \in 1..Len(handles)
    /\ handles[h].dim = 2
    /\ handles' = [handles EXCEPT ![h].value = AtomicF32x2_store(@, x, y)]
    /\ hist' = [hist EXCEPT !.writes = @ + 1, !.quiet_cur = FALSE,
                            !.raced = @ \/ pc = "self",
                            !.written[h] = @ \cup {<<x, y>>}]
    /\ UNCHANGED <<probe, puppet, status, error, root_node, render_buffer, pc, path, pidx,
                   acc, returned>>

\* A faulty PuppetEngine::update that advances the root's Z by delta.
UpdateBegin_timed(delta) ==
    /\ status = "ok"
    /\ pc = "idle"
    /\ hist.updates < MaxUpdates
    /\ pc' = "self"
    /\ path' = <<>>
    /\ pidx' = 1
    /\ acc' = [UpdateSelfLocals(root_node) EXCEPT !.zsort = FAdd(@, F(delta))]
    /\ hist' = [hist EXCEPT !.updates = @ + 1, !.quiet = hist.quiet_cur,
                            !.quiet_cur = TRUE, !.prev = returned]
    /\ UNCHANGED <<probe, puppet, status, error, root_node, render_buffer, handles,
                   returned>>

\* PuppetEngine::update(delta) up to the first load: Node::update calls
\* update_recursive on the root, which enters update_self.
UpdateBegin(delta) ==
    /\ status = "ok"
    /\ pc = "idle"
    /\ hist.updates < MaxUpdates
    /\ pc' = "self"
    /\ path' = <<>>
    /\ pidx' = 1
    /\ acc' = UpdateSelfLocals(root_node)
    /\ hist' = [hist EXCEPT !.updates = @ + 1, !.quiet = hist.quiet_cur,
                            !.quiet_cur = TRUE, !.prev = returned]
    /\ UNCHANGED <<probe, puppet, status, error, root_node, render_buffer, handles,
                   returned>>

\* One turn of the loop of update_self: param.value() loads the handle and
\* the match adds the value to its target. An index out of bounds panics.
UpdateParam ==
    /\ pc = "self"
    /\ pidx <= Len(NodeAt(root_node, path).params)
    /\ \E param \in {NodeAt(root_node, path).params[pidx]} :
       \E value \in {ParamBinding_value(param, handles[param.param])} :
           /\ hist' = IF handles[param.param].dim = 2
                      THEN [hist EXCEPT !.loaded = @ \cup
                               {<<param.param, AtomicF32x2_load(handles[param.param].value)>>}]
                      ELSE hist
           /\ IF value.panic
              THEN /\ pc' = "panicked"
                   /\ UNCHANGED <<pidx, acc>>
              ELSE /\ pc' = pc
                   /\ pidx' = pidx + 1
                   /\ acc' = ApplyTarget(acc, param.target, value.v)
    /\ UNCHANGED <<probe, puppet, status, error, root_node, render_buffer, handles, path,
                   returned>>

\* A faulty parent_transform: the transform the parent had in the commands
\* the previous update returned, or the identity when there is none.
ParentTransform_cached(root, p) ==
    IF Len(p) = 0 THEN Transform_identity
    ELSE IF \E i \in 1..Len(returned) : returned[i].node = NodeAt(root, Front(p)).uuid
    THEN returned[CHOOSE i \in 1..Len(returned) :
                      /\ returned[i].node = NodeAt(root, Front(p)).uuid
                      /\ \A j \in 1..Len(returned) :
                            returned[j].node = returned[i].node
                                => returned[j].frame <= returned[i].frame].transform
    ELSE Transform_identity

\* The parent_transform update_recursive passes to the node at p.
ParentTransform(root, p) ==
    IF Len(p) = 0 THEN Transform_identity ELSE NodeAt(root, Front(p)).global_transform

\* The rest of update_self, and update_recursive up to the next load: the
\* command is pushed and the next node is entered, or, after the last node,
\* PuppetEngine::update finishes the buffer and returns it.
UpdateEmit ==
    /\ pc = "self"
    /\ pidx > Len(NodeAt(root_node, path).params)
    /\ \E done \in {UpdateSelfFinish(NodeAt(root_node, path), acc,
                                     ParentTransform(root_node, path))} :
       \E tree \in {SetNodeAt(root_node, path, done[1])} :
       \E pushed \in {RenderBuffer_push(render_buffer,
                                         done[2] @@ [frame |-> hist.updates])} :
       \E next \in {NextVisit(tree, path)} :
           /\ root_node' = tree
           /\ IF next.done
              THEN /\ render_buffer' = RenderBuffer_finish(pushed)
                   /\ returned' = render_buffer'
                   /\ pc' = "idle"
                   /\ path' = <<>>
                   /\ acc' = NoAcc
              ELSE /\ render_buffer' = pushed
                   /\ returned' = returned
                   /\ pc' = pc
                   /\ path' = next.path
                   /\ acc' = UpdateSelfLocals(NodeAt(tree, next.path))
           /\ pidx' = 1
    /\ UNCHANGED <<probe, puppet, status, error, handles, hist>>

Next ==
    \/ New
    \/ \E h \in 1..Len(handles), value \in Set1DVals : Set1D(h, value)
    \/ \E h \in 1..Len(handles), xy \in Set2DVals : Set2D(h, xy[1], xy[2])
    \/ \E delta \in Deltas : UpdateBegin(delta)
    \/ UpdateParam
    \/ UpdateEmit

Spec == Init /\ [][Next]_vars

\* Construction alone, over the whole family of descriptions.
NextNew == New

SpecNew == InitNew /\ [][NextNew]_vars

\* ------------------------------------------------------------ properties

\* What a RenderCommand exposes: node(), zsort() and transform().
CommandView(cmd) == [node |-> cmd.node, zsort |-> cmd.zsort, transform |-> cmd.transform]

CommandViews(commands) == [i \in 1..Len(commands) |-> CommandView(commands[i])]

\* The ids of the nodes of a tree.
RECURSIVE NodeIds(_)
NodeIds(node) ==
    {node.uuid} \cup UNION {NodeIds(node.children[i]) : i \in 1..Len(node.children)}

\* An update call has returned and no other is running.
Returned == status = "ok" /\ pc = "idle" /\ hist.updates >= 1

\* C1: two update calls in a row with no parameter write in between return
\* identical command sequences: the same length and the same node id, Z and
\* global transform at every position.
C1_UpdateIdempotent ==
    (Returned /\ hist.updates >= 2 /\ hist.quiet /\ hist.quiet_cur)
        => CommandViews(returned) = CommandViews(hist.prev)

\* C2: a fresh engine holds an empty render buffer, and the sequence the n-th
\* update call returns holds exactly one command per node of the tree, each
\* pushed by that call.
C2_BufferRebuiltEachFrame ==
    /\ (status = "ok" /\ hist.updates = 0) => render_buffer = <<>>
    /\ Returned =>
        /\ Len(returned) = Cardinality(NodeIds(root_node))
        /\ {returned[i].node : i \in 1..Len(returned)} = NodeIds(root_node)
        /\ \A i \in 1..Len(returned) : returned[i].frame = hist.updates

\* C3 as claimed: every adjacent pair (a, b) of a returned sequence has
\* a.zsort >= b.zsort.
C3_SortedDescending ==
    Returned =>
        \A i \in 1..(Len(returned) - 1) : FGe(returned[i].zsort, returned[i + 1].zsort)

\* C3 as amended: the returned sequence is ascending in the IEEE total order
\* of the negated Z, so every two commands whose Z is not a NaN are in
\* descending order of Z, the adjacent ones included.
C3_SortedByTotalOrder ==
    Returned =>
        /\ \A i \in 1..(Len(returned) - 1) :
              TotalF32_cmp(FNeg(returned[i].zsort), FNeg(returned[i + 1].zsort)) # "Greater"
        /\ \A i, j \in 1..Len(returned) :
              (i < j /\ ~IsNaN(returned[i].zsort) /\ ~IsNaN(returned[j].zsort))
                  => FGe(returned[i].zsort, returned[j].zsort)

\* C3 witness: after a parameter write an update returned commands of at
\* least three distinct Z values, one of them a NaN.
C3_Witness ==
    /\ Returned
    /\ hist.writes >= 1
    /\ \E i \in 1..Len(returned) : IsNaN(returned[i].zsort)
    /\ \E i, j \in 1..Len(returned) :
          i < j /\ FGt(returned[i].zsort, returned[j].zsort)
                /\ FGt(returned[i].zsort, One)

\* The declared defaults of parameter h, as the pair a 2D handle starts with.
Defaults(h) == <<puppet.params[h].defaults[1], puppet.params[h].defaults[2]>>

\* C4: every pair ParamBinding::value loads from a 2D handle is the declared
\* default pair or the two arguments of one single set call.
C4_NoTornPair ==
    \A l \in hist.loaded : l[2] = Defaults(l[1]) \/ l[2] \in hist.written[l[1]]

\* C4 witness: two set calls with different pairs on one 2D handle, one of
\* them made while an update pass was running, and a load that returned the
\* pair of one of the two.
C4_Witness ==
    /\ hist.raced
    /\ \E l \in hist.loaded :
          /\ l[2] \in hist.written[l[1]]
          /\ l[2] # Defaults(l[1])
          /\ Cardinality(hist.written[l[1]]) >= 2

\* C5: update never panics, whatever the handles hold, and returns a command
\* for every node.
C5_UpdateInfallible ==
    /\ pc # "panicked"
    /\ Returned => {returned[i].node : i \in 1..Len(returned)} = NodeIds(root_node)

\* --- what the specification calls an invalid or an unsupported description

\* The axes of a parameter: one for a 1D parameter, two for a 2D one.
AxesOf(p) == IF p.is_vec2 THEN {1, 2} ELSE {1}

\* An adjacent pair of breakpoints in descending order.
HasDescendingPair(points) ==
    \E i \in 1..(Len(points) - 1) : FGt(points[i], points[i + 1])

\* No breakpoints, a first breakpoint that is not 0.0 or a last one that is
\* not 1.0, or a minimum above the maximum.
HasBadBounds(p, a) ==
    \/ Len(p.axis_points[a]) = 0
    \/ ~FEq(p.axis_points[a][1], Zero)
    \/ ~FEq(p.axis_points[a][Len(p.axis_points[a])], One)
    \/ FGt(p.min[a], p.max[a])

InvalidAxis(p, a) == HasBadBounds(p, a) \/ HasDescendingPair(p.axis_points[a])

InvalidParam(p) == \E a \in AxesOf(p) : InvalidAxis(p, a)

TargetNames ==
    {"zSort", "transform.t.x", "transform.t.y", "transform.t.z", "transform.r.x",
     "transform.r.y", "transform.r.z", "transform.s.x", "transform.s.y"}

NonLinear(b) == b.interpolate_mode # "Linear"

HasDeformationCell(b) ==
    \E j \in 1..Len(b.values) : \E i \in 1..Len(b.values[j]) :
        b.values[j][i].kind = "Deformation"

UnknownTarget(b) == b.param_name \notin TargetNames

UnsupportedBinding(b) == NonLinear(b) \/ UnknownTarget(b) \/ HasDeformationCell(b)

UnsupportedParam(p) == \E k \in 1..Len(p.bindings) : UnsupportedBinding(p.bindings[k])

\* A node of the tree, at any depth, whose type the engine does not know.
RECURSIVE HasUnsupportedNode(_)
HasUnsupportedNode(node) ==
    \/ node.type \notin {"Node", "Drawable", "Part"}
    \/ \E i \in 1..Len(node.children) : HasUnsupportedNode(node.children[i])

DefectiveParam(p) == InvalidParam(p) \/ UnsupportedParam(p)

HasDefect(d) ==
    \/ \E i \in 1..Len(d.params) : DefectiveParam(d.params[i])
    \/ HasUnsupportedNode(d.root_node)

\* PuppetEngine::new has returned.
Constructed == status # "init"

\* No engine came out of PuppetEngine::new: an error, and no tree, buffer or
\* handle.
NoEngine == status = "err" /\ error # "none" /\ root_node = <<>> /\ handles = <<>>

\* The error construction reports when parameter i is defective: the defects
\* are met in lowering order, parameter by parameter, the axes of a
\* parameter before its bindings.
FirstDefective(d) ==
    CHOOSE i \in 1..Len(d.params) :
        DefectiveParam(d.params[i]) /\ \A j \in 1..(i - 1) : ~DefectiveParam(d.params[j])

FirstDefectKind(d) ==
    IF \E i \in 1..Len(d.params) : DefectiveParam(d.params[i])
    THEN (IF InvalidParam(d.params[FirstDefective(d)]) THEN "Invalid" ELSE "Unsupported")
    ELSE "Unsupported"

DescendingAt(i, a) ==
    /\ i \in 1..Len(puppet.params)
    /\ a \in AxesOf(puppet.params[i])
    /\ HasDescendingPair(puppet.params[i].axis_points[a])

BadBoundsAt(i, a) ==
    /\ i \in 1..Len(puppet.params)
    /\ a \in AxesOf(puppet.params[i])
    /\ HasBadBounds(puppet.params[i], a)

\* The only parameter of the description, which has no unsupported binding.
SoleParam ==
    /\ Len(puppet.params) = 1
    /\ ~UnsupportedParam(puppet.params[1])
    /\ ~HasUnsupportedNode(puppet.root_node)

\* C7 as claimed: a parameter with an axis whose breakpoints hold an adjacent
\* pair in descending order makes construction fail with an Invalid error.
C7_UnsortedIsInvalid ==
    (Constructed /\ \E i \in 1..2, a \in 1..2 : DescendingAt(i, a))
        => (status = "err" /\ error = "Invalid")

\* C7 as amended: ParamAxis::lower returns Invalid for such an axis and
\* construction fails; the error of the construction is the one of the
\* first defect in lowering order, so it is Invalid unless the first
\* defective parameter of the list has valid axes and an unsupported binding.
C7_UnsortedFails ==
    \A i \in 1..2, a \in 1..2 :
        (Constructed /\ DescendingAt(i, a))
            => /\ ParamAxis_lower(puppet.params[i], a) = Error_invalid
               /\ NoEngine
               /\ error = FirstDefectKind(puppet)
               /\ (\A j \in 1..(i - 1) : ~UnsupportedParam(puppet.params[j]))
                      => error = "Invalid"

\* C7 witness: construction failed as Invalid on a sole parameter whose
\* first axis is in bounds and unsorted, so that only is_sorted rejects it.
C7_Witness ==
    /\ NoEngine
    /\ error = "Invalid"
    /\ SoleParam
    /\ DescendingAt(1, 1)
    /\ ~HasBadBounds(puppet.params[1], 1)
    /\ \A a \in AxesOf(puppet.params[1]) \ {1} : ~InvalidAxis(puppet.params[1], a)

\* C8 as claimed: an axis with no breakpoints, with a first breakpoint other
\* than 0.0 or a last one other than 1.0, or with min above max, makes
\* construction fail with an Invalid error.
C8_BadBoundsIsInvalid ==
    (Constructed /\ \E i \in 1..2, a \in 1..2 : BadBoundsAt(i, a))
        => (status = "err" /\ error = "Invalid")

\* C8 as amended: ParamAxis::lower returns Invalid for such an axis and
\* construction fails, with the error of the first defect in lowering order:
\* Invalid unless the first defective parameter of the list has valid axes
\* and an unsupported binding.
C8_BadBoundsFails ==
    \A i \in 1..2, a \in 1..2 :
        (Constructed /\ BadBoundsAt(i, a))
            => /\ ParamAxis_lower(puppet.params[i], a) = Error_invalid
               /\ NoEngine
               /\ error = FirstDefectKind(puppet)
               /\ (\A j \in 1..(i - 1) : ~UnsupportedParam(puppet.params[j]))
                      => error = "Invalid"

\* C8 witness: construction failed as Invalid on a sole 2D parameter whose
\* only defect is the minimum of its second axis exceeding the maximum.
C8_Witness ==
    /\ NoEngine
    /\ error = "Invalid"
    /\ SoleParam
    /\ puppet.params[1].is_vec2
    /\ ~InvalidAxis(puppet.params[1], 1)
    /\ FGt(puppet.params[1].min[2], puppet.params[1].max[2])
    /\ ~HasDescendingPair(puppet.params[1].axis_points[2])

\* Binding k of parameter i is not Linear.
NonLinearAt(i, k) ==
    /\ i \in 1..Len(puppet.params)
    /\ k \in 1..Len(puppet.params[i].bindings)
    /\ NonLinear(puppet.params[i].bindings[k])

HasUnsupportedValueTargetOrNode ==
    \/ \E i \in 1..Len(puppet.params) : \E k \in 1..Len(puppet.params[i].bindings) :
          \/ HasDeformationCell(puppet.params[i].bindings[k])
          \/ UnknownTarget(puppet.params[i].bindings[k])
    \/ HasUnsupportedNode(puppet.root_node)

\* C10 as claimed: a deformation cell in a grid, a target name outside the
\* nine names, or a node that is not a plain node, a drawable or a part,
\* makes construction fail with an Unsupported error.
C10_UnsupportedIsUnsupported ==
    (Constructed /\ HasUnsupportedValueTargetOrNode)
        => (status = "err" /\ error = "Unsupported")

\* C10 as amended: each of the three makes construction fail, with the error
\* of the first defect in lowering order: Unsupported unless a parameter
\* with an invalid axis is met first.
C10_UnsupportedFails ==
    (Constructed /\ HasUnsupportedValueTargetOrNode)
        => /\ NoEngine
           /\ error = FirstDefectKind(puppet)
           /\ (\A j \in 1..Len(puppet.params) : ~InvalidParam(puppet.params[j]))
                  => error = "Unsupported"

\* C10 witness: construction failed as Unsupported on a description whose
\* only defect is a deformation cell in the grid of a binding.
C10_Witness ==
    /\ NoEngine
    /\ error = "Unsupported"
    /\ Len(puppet.params) = 1
    /\ ~InvalidParam(puppet.params[1])
    /\ ~HasUnsupportedNode(puppet.root_node)
    /\ Len(puppet.params[1].bindings) = 1
    /\ HasDeformationCell(puppet.params[1].bindings[1])
    /\ ~NonLinear(puppet.params[1].bindings[1])
    /\ ~UnknownTarget(puppet.params[1].bindings[1])


\* --- the distribution of the bindings to the nodes

\* The nodes of the engine tree under node, node included.
RECURSIVE NodesOf(_)
NodesOf(node) ==
    {node} \cup UNION {NodesOf(node.children[i]) : i \in 1..Len(node.children)}

\* The bindings the description declares, as <<parameter, binding>> indices.
Declared ==
    {<<i, k>> \in (1..Len(puppet.params)) \X (1..MaxLen) :
        k <= Len(puppet.params[i].bindings)}

\* What ParamMap::lower makes of declared binding ik of a valid description.
LoweredBinding(ik) ==
    LET binding == puppet.params[ik[1]].bindings[ik[2]]
    IN  [param |-> ik[1],
         target |-> ParamTarget_from_str(binding.param_name).val,
         values |-> LowerValues(binding.values, 1, <<>>).val]

\* The nodes of the engine tree that hold declared binding ik.
OwnersOf(ik) ==
    {node \in NodesOf(root_node) :
        \E m \in 1..Len(node.params) : node.params[m] = LoweredBinding(ik)}

\* The map ParamMap::lower built for the description.
LoweredMap == ParamMap_lower(puppet.params).val.map

\* take_params_affecting_node(node) removes what it returns: a second call
\* returns nothing and the lists of the other ids are as they were.
TakeRemoves(map, node) ==
    LET taken == take_params_affecting_node(map, node)
    IN  /\ taken[1] = IF node \in DOMAIN map THEN map[node] ELSE <<>>
        /\ take_params_affecting_node(taken[2], node)[1] = <<>>
        /\ DOMAIN taken[2] = DOMAIN map \ {node}
        /\ \A k \in DOMAIN taken[2] : taken[2][k] = map[k]

\* The number of bindings held in the tree under node.
RECURSIVE HeldCount(_)
HeldCount(node) ==
    IF Len(node.children) = 0 THEN Len(node.params)
    ELSE Len(node.params)
         + HeldCount(node.children[1])
         + HeldCount([node EXCEPT !.params = <<>>, !.children = Tail(@)])

\* The target node id of declared binding ik.
TargetOf(ik) == puppet.params[ik[1]].bindings[ik[2]].node

\* The ids of the nodes of the engine tree.
TreeIds == {node.uuid : node \in NodesOf(root_node)}

\* C11 as claimed: in a constructed engine every declared binding is held by
\* exactly one node, whose id is the binding's target, and the tree holds no
\* binding twice; extracting the bindings of a node id from the map removes
\* them from it and leaves the other lists alone.
C11_EveryBindingOwnedOnce ==
    status = "ok" =>
        /\ \A ik \in Declared :
              /\ Cardinality(OwnersOf(ik)) = 1
              /\ \A node \in OwnersOf(ik) : node.uuid = TargetOf(ik)
        /\ HeldCount(root_node) = Cardinality(Declared)
        /\ \A node \in {1, 2, 3, 99} : TakeRemoves(LoweredMap, node)

\* C11 as amended: every declared binding whose target is the id of a node of
\* the tree is held by exactly one node, whose id is that target; a binding
\* whose target is the id of no node is held by no node; the tree holds no
\* binding twice; extraction removes what it returns.
C11_TargetedBindingOwnedOnce ==
    status = "ok" =>
        /\ \A ik \in Declared :
              IF TargetOf(ik) \in TreeIds
              THEN /\ Cardinality(OwnersOf(ik)) = 1
                   /\ \A node \in OwnersOf(ik) : node.uuid = TargetOf(ik)
              ELSE OwnersOf(ik) = {}
        /\ HeldCount(root_node) =
               Cardinality({ik \in Declared : TargetOf(ik) \in TreeIds})
        /\ \A node \in {1, 2, 3, 99} : TakeRemoves(LoweredMap, node)

\* C11 witness: a constructed engine whose description declares a binding
\* for a node of the tree, which holds it, and one for the id of no node.
C11_Witness ==
    /\ status = "ok"
    /\ \E ik \in Declared : TargetOf(ik) \in TreeIds /\ Cardinality(OwnersOf(ik)) = 1
    /\ \E ik \in Declared : TargetOf(ik) \notin TreeIds /\ OwnersOf(ik) = {}

\* --- the shape of the grids

\* Binding b of the engine has one row per breakpoint of the Y axis of its
\* parameter (one row for a 1D parameter) and, in every row, one cell per
\* breakpoint of the X axis.
GridMatchesAxes(b) ==
    LET h == handles[b.param]
    IN  /\ Len(b.values) = IF h.dim = 2 THEN Len(h.axes[2].axis_points) ELSE 1
        /\ \A r \in 1..Len(b.values) : Len(b.values[r]) = Len(h.axes[1].axis_points)

\* C12: every binding held by a constructed engine has a grid of the shape
\* of its parameter's axes.
C12_GridShape ==
    status = "ok" =>
        \A node \in NodesOf(root_node) :
            \A m \in 1..Len(node.params) : GridMatchesAxes(node.params[m])


\* ------------------------------------------------------------ ParamAxis::interp alone

\* <<min, max>> of the axis under test: around zero, the unit range, equal,
\* out of order.
InterpMinMaxMenu == {<<F(-1), One>>, <<Zero, One>>, <<One, One>>, <<One, Zero>>}

\* A tree of one plain node.
LoneNode == IoNode("Node", 1, Zero, <<Zero, Zero, Zero>>, FALSE, <<>>)

\* Descriptions of one 1D parameter without bindings: every breakpoint list
\* with every <<min, max>>.
AxisDescriptions ==
    {[params |-> <<IoParam(FALSE, <<mm[1], Zero>>, <<mm[2], Zero>>, <<Zero, Zero>>,
                           <<pts, <<Zero>>>>, <<>>)>>,
      root_node |-> LoneNode]
     : mm \in InterpMinMaxMenu, pts \in InterpLists}

\* The raw values given to interp, below, inside and above the ranges.
RawVals == {Inf(-1), F(-2), F(-1), Num(-1, 2), Zero, Num(1, 4), Half, One, F(2), Inf(1)}

InitInterp == InitWith(AxisDescriptions)

\* self.axes[0].interp(lo) and interp(hi) for lo <= hi, and interp at the
\* ends of the range, on the axis PuppetEngine::new lowered.
InterpCalls(lo, hi) ==
    /\ status = "ok"
    /\ probe = NoProbe
    /\ ~FGt(lo, hi)
    /\ \E axis \in {handles[1].axes[1]} :
          probe' = [call |-> "interp", axis |-> axis, lo |-> lo, hi |-> hi,
                    at_lo |-> ParamAxis_interp(axis, lo),
                    at_hi |-> ParamAxis_interp(axis, hi),
                    at_min |-> ParamAxis_interp(axis, axis.min),
                    at_max |-> ParamAxis_interp(axis, axis.max)]
    /\ UNCHANGED <<puppet, status, error, root_node, render_buffer, handles, pc, path,
                   pidx, acc, returned, hist>>

NextInterp ==
    \/ New
    \/ \E lo \in RawVals, hi \in RawVals : InterpCalls(lo, hi)

SpecInterp == InitInterp /\ [][NextInterp]_vars

\* Interp a is not after Interp b: a lower bucket, or the same bucket and a
\* distance that is not greater.
InterpLe(a, b) ==
    \/ a.start_index < b.start_index
    \/ a.start_index = b.start_index /\ FGe(b.dist, a.dist)

\* C13: on a lowered axis interp returns a distance within [0, 1] for every
\* raw value, and the (bucket, distance) pair does not decrease as the raw
\* value increases.
C13_InterpMonotoneInUnit ==
    probe.call = "interp" =>
        /\ FGe(probe.at_lo.dist, Zero) /\ FGe(One, probe.at_lo.dist)
        /\ FGe(probe.at_hi.dist, Zero) /\ FGe(One, probe.at_hi.dist)
        /\ InterpLe(probe.at_lo, probe.at_hi)


\* Interp a is the pair (bucket, distance).
InterpIs(a, bucket, distance) == a.start_index = bucket /\ FEq(a.dist, distance)

\* C14: on a lowered axis interp(min) is (0, 0.0) and interp(max) is
\* (breakpoint count - 2, 1.0); a value below min gives the result of min and
\* a value above max the result of max.
C14_InterpEndsAndClamp ==
    probe.call = "interp" =>
        /\ InterpIs(probe.at_min, 0, Zero)
        /\ InterpIs(probe.at_max, Len(probe.axis.axis_points) - 2, One)
        /\ FGt(probe.axis.min, probe.lo) =>
              InterpIs(probe.at_lo, probe.at_min.start_index, probe.at_min.dist)
        /\ FGt(probe.hi, probe.axis.max) =>
              InterpIs(probe.at_hi, probe.at_max.start_index, probe.at_max.dist)


\* ------------------------------------------------------------ properties of the transforms

\* The contents the cell of handle h can have held: the declared defaults or
\* the arguments of a set call made on it.
PossibleCells(h) ==
    IF handles[h].dim = 1
    THEN {AtomicF32_new(puppet.params[h].defaults[1])}
         \cup {AtomicF32_store(handles[h].value, w[1]) : w \in hist.written[h]}
    ELSE {AtomicF32x2_new(puppet.params[h].defaults[1], puppet.params[h].defaults[2])}
         \cup {AtomicF32x2_store(handles[h].value, w[1], w[2]) : w \in hist.written[h]}

\* The handles with each cell at one of the contents it can have held.
PossibleHandles ==
    {[h \in 1..Len(handles) |-> [handles[h] EXCEPT !.value = cells[h]]] :
        cells \in {c \in [1..Len(handles) -> UNION {PossibleCells(h) : h \in 1..Len(handles)}] :
                      \A h \in 1..Len(handles) : c[h] \in PossibleCells(h)}}

\* The handles with the cells that the bindings of node point to at one of
\* the contents they can have held, and every other cell as it is.
PossibleHandlesOf(node) ==
    {hs \in PossibleHandles :
        \A h \in 1..Len(handles) :
            (\A m \in 1..Len(node.params) : node.params[m].param # h) => hs[h] = handles[h]}

\* The locals of update_self after the first k bindings of node, evaluated
\* with the handles hs.
RECURSIVE OwnOffsets(_, _, _)
OwnOffsets(node, hs, k) ==
    IF k = 0 THEN UpdateSelfLocals(node)
    ELSE ApplyTarget(OwnOffsets(node, hs, k - 1), node.params[k].target,
                     ParamBinding_value(node.params[k], hs[node.params[k].param]).v)

\* The self transform of node with the handles hs: its base transform
\* composed with the offsets of its own bindings.
SelfTransform(node, hs) ==
    Transform_mul(node.base_transform,
                  Transform_from_io(OwnOffsets(node, hs, Len(node.params)).param_tf))

\* The nodes of the tree flagged lock_to_root.
LockedNodes == {node \in NodesOf(root_node) : node.lock_to_root}

\* The parent of the node with id uuid has a global transform other than the
\* identity.
RECURSIVE UnderMovedParent(_, _)
UnderMovedParent(node, uuid) ==
    \E i \in 1..Len(node.children) :
        \/ node.children[i].uuid = uuid /\ node.global_transform # Transform_identity
        \/ UnderMovedParent(node.children[i], uuid)

\* C15: every command an update returns for a node flagged lock_to_root, and
\* the transform the node caches, is the node's self transform for values its
\* own bindings' handles held: neither the transform of an ancestor nor the
\* handles of an ancestor's bindings enter it.
C15_LockToRoot ==
    (status = "ok" /\ pc # "panicked") =>
        \A node \in LockedNodes :
        \A selves \in {{SelfTransform(node, hs) : hs \in PossibleHandlesOf(node)}} :
            /\ \A i \in 1..Len(returned) :
                  returned[i].node = node.uuid => returned[i].transform \in selves
            /\ hist.updates > 0 /\ pc = "idle" => node.global_transform \in selves

\* C15 witness: an update returned the command of a node flagged lock_to_root
\* whose parent had been moved by its own base transform and by a write to
\* the parameter bound to it.
C15_Witness ==
    /\ Returned
    /\ \E h \in 1..Len(handles) : handles[h].dim = 2 /\ hist.written[h] # {}
    /\ \E node \in LockedNodes :
          /\ UnderMovedParent(root_node, node.uuid)
          /\ \E i \in 1..Len(returned) : returned[i].node = node.uuid


\* ------------------------------------------------------------ ParamBinding::value alone

\* Grids of a binding of a 1D parameter: the two cells of a two-breakpoint
\* axis, three cells, and two cells the first of which is infinite.
ValueGrids == {<<<<Zero, One>>>>, <<<<F(7), F(8), F(9)>>>>, <<<<Inf(1), One>>>>}

\* Descriptions of one node with one binding: a 1D parameter over [-1, 1]
\* with every breakpoint list and every grid of ValueGrids, and a 2D
\* parameter with two breakpoints per axis, over the unit square or with a Y
\* range of the single value 1.0, its grid having two rows or one.
ValueDescriptions ==
    {[params |-> <<IoParam(FALSE, <<F(-1), Zero>>, <<One, Zero>>, <<Zero, Zero>>,
                           <<pts, <<Zero>>>>,
                           <<IoBinding(1, "zSort", ScalarGrid(grid), "Linear")>>)>>,
      root_node |-> LoneNode]
     : pts \in InterpLists, grid \in ValueGrids}
    \cup
    {[params |-> <<IoParam(TRUE, <<Zero, ymin>>, <<One, One>>, <<Zero, Zero>>,
                           <<<<Zero, One>>, <<Zero, One>>>>,
                           <<IoBinding(1, "zSort", ScalarGrid(grid), "Linear")>>)>>,
      root_node |-> LoneNode]
     : ymin \in {Zero, One},
       grid \in {<<<<Zero, One>>, <<F(2), F(3)>>>>, <<<<Zero, One>>>>}}

\* The pairs given to ParamHandle2D::set: every corner and the centre.
RawPairs == {<<x, y>> : x \in {Zero, Half, One}, y \in {Zero, Half, One}}

InitValue == InitWith(ValueDescriptions)

\* binding.value() on a binding of the root node, with the handle as it is.
ValueCall(m) ==
    /\ status = "ok"
    /\ m \in 1..Len(root_node.params)
    /\ \E binding \in {root_node.params[m]} :
          probe' = [call |-> "value", binding |-> binding,
                    handle |-> handles[binding.param],
                    result |-> ParamBinding_value(binding, handles[binding.param])]
    /\ UNCHANGED <<puppet, status, error, root_node, render_buffer, handles, pc, path,
                   pidx, acc, returned, hist>>

NextValue ==
    \/ New
    \/ \E value \in RawVals : Set1D(1, value)
    \/ \E xy \in RawPairs : Set2D(1, xy[1], xy[2])
    \/ \E m \in 1..MaxLen : ValueCall(m)

SpecValue == InitValue /\ [][NextValue]_vars

\* The clamped and remapped value of ParamAxis::interp (line 145).
Normalized(axis, raw) ==
    FDiv(FSub(FMax(FMin(raw, axis.max), axis.min), axis.min), FSub(axis.max, axis.min))

\* The value a handle holds lies on breakpoint i of the X axis and on
\* breakpoint j of the Y axis, counted from 0; j is 0 for a 1D handle.
OnBreakpoints(handle, i, j) ==
    IF handle.dim = 1
    THEN /\ j = 0
         /\ i < Len(handle.axes[1].axis_points)
         /\ FEq(Normalized(handle.axes[1], AtomicF32_load(handle.value)),
                handle.axes[1].axis_points[i + 1])
    ELSE /\ i < Len(handle.axes[1].axis_points)
         /\ j < Len(handle.axes[2].axis_points)
         /\ FEq(Normalized(handle.axes[1], AtomicF32x2_load(handle.value)[1]),
                handle.axes[1].axis_points[i + 1])
         /\ FEq(Normalized(handle.axes[2], AtomicF32x2_load(handle.value)[2]),
                handle.axes[2].axis_points[j + 1])

\* C16: when the handle's value lies on breakpoint i of the X axis and
\* breakpoint j of the Y axis, value() does not index outside the grid and
\* returns exactly the cell grid[j][i].
C16_OnBreakpointReturnsCell ==
    probe.call = "value" =>
        \A i \in 0..(MaxLen - 1), j \in 0..(MaxLen - 1) :
            OnBreakpoints(probe.handle, i, j) =>
                /\ ~probe.result.panic
                /\ j < Len(probe.binding.values)
                /\ i < Len(probe.binding.values[j + 1])
                /\ FEq(probe.result.v, probe.binding.values[j + 1][i + 1])


\* The translation X of a transform that is one known matrix: the first
\* entry of its last column; 0.0 for the identity.
TranslationX(t) == IF Len(t) = 0 THEN Zero ELSE t[1][2][1][4]

\* The base translation X of the child of a two-node description.
ChildTx == puppet.root_node.children[1].transform.trans[1]

\* C17: in the two-node tree, every command returned for the child has a
\* transform that is one matrix of translation X tx + v, v being the value
\* of the child's transform.t.x binding for a value its handle held; with
\* tx = 10 and the parameter left at its midpoint, where v = 5, it is 15.
C17_ChildTranslation ==
    (Returned /\ puppet \in TwoNodePuppets) =>
        \A i \in 1..Len(returned) :
            returned[i].node = 2 =>
                /\ Len(returned[i].transform) <= 1
                /\ \E hs \in PossibleHandles :
                      FEq(TranslationX(returned[i].transform),
                          FAdd(ChildTx,
                               ParamBinding_value(root_node.children[1].params[1],
                                                  hs[1]).v))
                /\ (hist.writes = 0 /\ ChildTx = F(10)) =>
                      FEq(TranslationX(returned[i].transform), F(15))

\* C17 witness: the scenario of the specification, the child at 10 and the
\* parameter at its midpoint: an update returned X = 15 for the child.
C17_Witness ==
    /\ Returned
    /\ puppet = TwoNodePuppet(F(10))
    /\ hist.writes = 0
    /\ \E i \in 1..Len(returned) :
          returned[i].node = 2 /\ FEq(TranslationX(returned[i].transform), F(15))


\* C18: a step of update(delta) is the step of update with any other delta:
\* the pass it starts, and so the commands it returns, do not depend on
\* delta, and the call itself changes neither the tree, the buffer nor a
\* handle.
C18_DeltaIgnored ==
    [][\A delta \in Deltas :
          UpdateBegin(delta) =>
              /\ \A other \in Deltas : UpdateBegin(other)
              /\ UNCHANGED <<root_node, render_buffer, handles>>]_vars

\* C18 witness: update calls, which are made with every delta, returned
\* commands.
C18_Witness ==
    /\ Returned
    /\ hist.updates = MaxUpdates
    /\ Cardinality(Deltas) > 1
    /\ Len(returned) > 0


\* A step in which ParamHandle1D::set or ParamHandle2D::set was called.
SetStep == hist'.writes = hist.writes + 1

\* A step of an update call: the call begins, or its pass is under way.
UpdateStep == hist'.updates = hist.updates + 1 \/ pc = "self"

\* C19: a set call changes the stored value of one handle and nothing else of
\* that handle, of another handle, of the node tree or of the render buffer;
\* once the engine is built, the tree and the buffer change in steps of an
\* update call only.
C19_SetFrame ==
    [][/\ SetStep =>
            /\ root_node' = root_node
            /\ render_buffer' = render_buffer
            /\ Len(handles') = Len(handles)
            /\ \E h \in 1..Len(handles) :
                  /\ handles' = [handles EXCEPT ![h].value = handles'[h].value]
                  /\ \E args \in hist'.written[h] :
                        handles'[h].value = IF handles[h].dim = 1
                                            THEN AtomicF32_store(handles[h].value, args[1])
                                            ELSE AtomicF32x2_store(handles[h].value,
                                                                   args[1], args[2])
       /\ (status = "ok" /\ (root_node' # root_node \/ render_buffer' # render_buffer))
              => UpdateStep]_vars

\* C19 witness: a set call was made during an update pass, with commands in
\* the buffer and a second handle to leave alone.
C19_Witness ==
    /\ status = "ok"
    /\ hist.raced
    /\ Len(handles) >= 2
    /\ Len(render_buffer) > 0
    /\ \E h \in 1..Len(handles) : hist.written[h] # {}


\* ------------------------------------------------------------ the declared defaults

\* The handles as ParamMap::lower creates them: each cell at the declared
\* default(s) of its parameter.
DefaultHandles ==
    [h \in 1..Len(handles) |->
        [handles[h] EXCEPT !.value =
            IF puppet.params[h].is_vec2
            THEN AtomicF32x2_new(puppet.params[h].defaults[1], puppet.params[h].defaults[2])
            ELSE AtomicF32_new(puppet.params[h].defaults[1])]]

\* What an update pass leaves in the tree under node, and in the commands it
\* returns, when every binding is evaluated with the handles hs.
RECURSIVE EvaluatedWith(_, _, _)
EvaluatedWith(node, parent_transform, hs) ==
    LET done == UpdateSelfFinish(node, OwnOffsets(node, hs, Len(node.params)),
                                 parent_transform)
    IN  /\ node.zsort = done[1].zsort
        /\ node.global_transform = done[1].global_transform
        /\ \E i \in 1..Len(returned) : returned[i].node = node.uuid
        /\ \A i \in 1..Len(returned) :
              returned[i].node = node.uuid =>
                  /\ returned[i].transform = done[2].transform
                  /\ returned[i].zsort = done[2].zsort
        /\ \A c \in 1..Len(node.children) :
              EvaluatedWith(node.children[c], node.global_transform, hs)

\* C20: the engine has one handle per parameter, which holds the declared
\* default(s) until the first set call; every binding in the tree points to
\* the handle of the parameter that declares it; an update that returns
\* before any set call has evaluated every binding at the declared defaults.
C20_DefaultsShared ==
    status = "ok" =>
        /\ Len(handles) = Len(puppet.params)
        /\ \A h \in 1..Len(handles) :
              /\ handles[h].dim = IF puppet.params[h].is_vec2 THEN 2 ELSE 1
              /\ hist.writes = 0 =>
                    IF puppet.params[h].is_vec2
                    THEN AtomicF32x2_load(handles[h].value)
                             = <<puppet.params[h].defaults[1], puppet.params[h].defaults[2]>>
                    ELSE AtomicF32_load(handles[h].value) = puppet.params[h].defaults[1]
        /\ \A node \in NodesOf(root_node) :
              \A m \in 1..Len(node.params) :
                  /\ node.params[m].param \in 1..Len(handles)
                  /\ \E ik \in Declared :
                        /\ ik[1] = node.params[m].param
                        /\ TargetOf(ik) = node.uuid
                        /\ node.params[m] = LoweredBinding(ik)
        /\ (Returned /\ hist.writes = 0) =>
              EvaluatedWith(root_node, Transform_identity, DefaultHandles)

\* C20 witness: an update returned before any set call, for a puppet whose 2D
\* parameter has a default other than 0.0 and whose 1D parameter has
\* bindings on two nodes.
C20_Witness ==
    /\ Returned
    /\ hist.writes = 0
    /\ \E h \in 1..Len(handles) :
          handles[h].dim = 2 /\ ~FEq(puppet.params[h].defaults[1], Zero)
    /\ \E h \in 1..Len(handles) :
          \E a, b \in NodesOf(root_node) :
              /\ a.uuid # b.uuid
              /\ \E m \in 1..Len(a.params) : a.params[m].param = h
              /\ \E m \in 1..Len(b.params) : b.params[m].param = h


\* ------------------------------------------------------------ the bucket of interp

\* The axis is valid: its breakpoints are numbers that start at 0.0, end at
\* 1.0 and never descend, and its minimum does not exceed its maximum.
ValidAxis(axis) ==
    /\ Len(axis.axis_points) > 0
    /\ \A k \in 1..Len(axis.axis_points) : IsNum(axis.axis_points[k])
    /\ FEq(axis.axis_points[1], Zero)
    /\ FEq(axis.axis_points[Len(axis.axis_points)], One)
    /\ \A k \in 1..(Len(axis.axis_points) - 1) :
          FGe(axis.axis_points[k + 1], axis.axis_points[k])
    /\ FGe(axis.max, axis.min)

\* interp(raw) gave the result got, and whenever the normalized position of
\* raw lies in bucket i, counted from 0, got is bucket i with the distance
\* (v - bp[i]) / (bp[i+1] - bp[i]).
BucketOf(axis, raw, got) ==
    \A v \in {Normalized(axis, raw)} :
    \A i \in 0..(Len(axis.axis_points) - 2) :
        (FGe(v, axis.axis_points[i + 1]) /\ FGt(axis.axis_points[i + 2], v)) =>
            InterpIs(got, i, FDiv(FSub(v, axis.axis_points[i + 1]),
                                  FSub(axis.axis_points[i + 2], axis.axis_points[i + 1])))

\* The axis of the scenario: breakpoints [0.0, 0.5, 1.0] over [-1, 1].
ScenarioAxis == [min |-> F(-1), max |-> One, axis_points |-> <<Zero, Half, One>>]

\* C21: on a valid axis interp returns, for a value whose normalized position
\* v has bp[i] <= v < bp[i+1], bucket i and the distance
\* (v - bp[i]) / (bp[i+1] - bp[i]), so a value on an interior breakpoint gives
\* (i, 0.0); on [0.0, 0.5, 1.0] over [-1, 1], interp(-0.5) = (0, 0.5),
\* interp(0.0) = (1, 0.0), interp(0.5) = (1, 0.5) and interp(1.0) = (1, 1.0).
C21_InterpBucket ==
    (probe.call = "interp" /\ ValidAxis(probe.axis)) =>
        /\ BucketOf(probe.axis, probe.lo, probe.at_lo)
        /\ BucketOf(probe.axis, probe.hi, probe.at_hi)
        /\ probe.axis = ScenarioAxis =>
              /\ probe.lo = Num(-1, 2) => InterpIs(probe.at_lo, 0, Half)
              /\ probe.lo = Zero => InterpIs(probe.at_lo, 1, Zero)
              /\ probe.lo = Half => InterpIs(probe.at_lo, 1, Half)
              /\ probe.lo = One => InterpIs(probe.at_lo, 1, One)

\* C21 witness: interp was called on the axis of the scenario with a value
\* on its interior breakpoint and with one inside its first bucket.
C21_Witness ==
    /\ probe.call = "interp"
    /\ probe.axis = ScenarioAxis
    /\ probe.lo = Num(-1, 2) /\ InterpIs(probe.at_lo, 0, Half)
    /\ probe.hi = Zero /\ InterpIs(probe.at_hi, 1, Zero)


\* ------------------------------------------------------------ Interp::lookup alone

\* The rows lookup is called on: every row of at most MaxLen cells.
LookupCells == {Zero, One, F(2)}

LookupRows == UNION {[1..n -> LookupCells] : n \in 1..MaxLen}

\* The Interp values lookup is called with: every bucket up to MaxLen, with
\* a distance of 0.0, inside (0, 1), 1.0, below 0.0, or NaN.
LookupInterps ==
    {[start_index |-> k, dist |-> d] :
        k \in 0..MaxLen, d \in {Zero, Num(1, 4), Half, One, F(-1), NaN}}

InitLookup == InitWith({[params |-> <<>>, root_node |-> LoneNode]})

\* interp.lookup(values)
LookupCall(interp, values) ==
    /\ probe = NoProbe
    /\ probe' = [call |-> "lookup", interp |-> interp, values |-> values,
                 result |-> Interp_lookup(interp, values)]
    /\ UNCHANGED <<puppet, status, error, root_node, render_buffer, handles, pc, path,
                   pidx, acc, returned, hist>>

NextLookup == \E interp \in LookupInterps, values \in LookupRows : LookupCall(interp, values)

SpecLookup == InitLookup /\ [][NextLookup]_vars

\* C22: with a distance of exactly 0 lookup returns values[start_index], also
\* when start_index is the last cell, where a read of values[start_index + 1]
\* would panic; with a distance d above 0 it returns
\* values[start_index] * (1 - d) + values[start_index + 1] * d.
C22_LookupBlend ==
    probe.call = "lookup" =>
        \A k \in {probe.interp.start_index}, d \in {probe.interp.dist} :
            /\ (FEq(d, Zero) /\ k < Len(probe.values)) =>
                  /\ ~probe.result.panic
                  /\ probe.result.v = probe.values[k + 1]
            /\ (FGt(d, Zero) /\ k + 1 < Len(probe.values)) =>
                  /\ ~probe.result.panic
                  /\ probe.result.v = FAdd(FMul(probe.values[k + 1], FSub(One, d)),
                                           FMul(probe.values[k + 2], d))
            /\ (probe.values = <<Zero, One, F(2)>> /\ k = 1 /\ d = Num(1, 4)) =>
                  probe.result.v = Num(5, 4)

\* C22 witness: lookup was called with a distance of 0 on the last cell of a
\* row of several cells and returned that cell.
C22_Witness ==
    /\ probe.call = "lookup"
    /\ FEq(probe.interp.dist, Zero)
    /\ Len(probe.values) > 1
    /\ probe.interp.start_index = Len(probe.values) - 1
    /\ ~probe.result.panic
    /\ probe.result.v = probe.values[Len(probe.values)]


\* ------------------------------------------------------------ bilinear interpolation

\* The per-axis results <<(bx, dx), (by, dy)>> of interp for the value the
\* handle holds, the Y axis of a 1D parameter being fixed at (0, 0.0).
AxisResults(handle) ==
    IF handle.dim = 1
    THEN <<ParamAxis_interp(handle.axes[1], AtomicF32_load(handle.value)),
           [start_index |-> 0, dist |-> Zero]>>
    ELSE <<ParamAxis_interp(handle.axes[1], AtomicF32x2_load(handle.value)[1]),
           ParamAxis_interp(handle.axes[2], AtomicF32x2_load(handle.value)[2])>>

\* rowval(r): the X-interpolation of grid row r, counted from 0.
RowVal(binding, x, r) == Interp_lookup(x, binding.values[r + 1]).v

\* Reference bilinear interpolation over the grid of the binding.
Bilinear(binding, x, y) ==
    IF FEq(y.dist, Zero) THEN RowVal(binding, x, y.start_index)
    ELSE FAdd(FMul(RowVal(binding, x, y.start_index), FSub(One, y.dist)),
              FMul(RowVal(binding, x, Min(y.start_index + 1, Len(binding.values) - 1)),
                   y.dist))

\* C23: ParamBinding::value returns the reference bilinear interpolation of
\* the per-axis interp results over the grid: rowval(by) when dy = 0 and
\* rowval(by) * (1 - dy) + rowval(min(by + 1, last row)) * dy otherwise.
C23_ValueIsBilinear ==
    probe.call = "value" =>
        \A xy \in {AxisResults(probe.handle)} :
            /\ ~probe.result.panic
            /\ probe.result.v = Bilinear(probe.binding, xy[1], xy[2])


\* ------------------------------------------------------------ ties of the sort

\* The ids of the tree under node in the order update_recursive visits them:
\* the node, then the subtree of each child in turn.
RECURSIVE Preorder(_)
RECURSIVE PreorderOfAll(_)
Preorder(node) == <<node.uuid>> \o PreorderOfAll(node.children)

PreorderOfAll(nodes) ==
    IF Len(nodes) = 0 THEN <<>> ELSE Preorder(Head(nodes)) \o PreorderOfAll(Tail(nodes))

\* The place of the node with id uuid in the traversal.
VisitIndex(uuid) ==
    CHOOSE k \in 1..Len(Preorder(root_node)) : Preorder(root_node)[k] = uuid

\* C24: in the sequence an update returns, two commands of equal Z are in
\* the order the traversal visited their nodes.
C24_TiesInTraversalOrder ==
    Returned =>
        \A i, j \in 1..Len(returned) :
            (i < j /\ FEq(returned[i].zsort, returned[j].zsort))
                => VisitIndex(returned[i].node) <= VisitIndex(returned[j].node)


\* ------------------------------------------------------------ the parent frame

\* The global transform of every node under node is the one update_self
\* computes from parent_transform, for values the handles of its own bindings
\* held, and its children were resolved against that global transform.
RECURSIVE ResolvedAgainst(_, _)
ResolvedAgainst(node, parent_transform) ==
    /\ \E hs \in PossibleHandlesOf(node) :
          node.global_transform =
              IF node.lock_to_root THEN SelfTransform(node, hs)
              ELSE Transform_mul(SelfTransform(node, hs), parent_transform)
    /\ \A c \in 1..Len(node.children) :
          ResolvedAgainst(node.children[c], node.global_transform)

\* C25: when an update has returned, the root is resolved against the
\* identity, every other node that is not lock_to_root has the global
\* transform self transform * the global transform its parent got in this
\* update, the children of a lock_to_root node being resolved against that
\* node's global transform; the commands of the update carry these transforms.
C25_ParentFrame ==
    Returned =>
        /\ ResolvedAgainst(root_node, Transform_identity)
        /\ \A node \in NodesOf(root_node) :
              \E i \in 1..Len(returned) :
                  /\ returned[i].node = node.uuid
                  /\ returned[i].frame = hist.updates
                  /\ returned[i].transform = node.global_transform

\* C25 witness: a second update returned for a tree in which a lock_to_root
\* node under a moved root has a child that is not locked, a write having
\* moved the locked node since the update before.
C25_Witness ==
    /\ Returned
    /\ hist.updates >= 2
    /\ \E parent \in LockedNodes :
          /\ UnderMovedParent(root_node, parent.uuid)
          /\ \E c \in 1..Len(parent.children) : ~parent.children[c].lock_to_root
          /\ \E i \in 1..Len(hist.prev) :
                /\ hist.prev[i].node = parent.uuid
                /\ hist.prev[i].frame = hist.updates - 1
                /\ hist.prev[i].transform # parent.global_transform


\* ------------------------------------------------------------ the offsets of a frame

\* The sum of the values, with the handles hs, of those of the first k
\* bindings of node that have the target.
RECURSIVE TargetSum(_, _, _, _)
TargetSum(node, hs, target, k) ==
    IF k = 0 THEN Zero
    ELSE IF node.params[k].target = target
    THEN FAdd(TargetSum(node, hs, target, k - 1),
              ParamBinding_value(node.params[k], hs[node.params[k].param]).v)
    ELSE TargetSum(node, hs, target, k - 1)

\* The offset transform of node with the handles hs: translation 0,
\* rotation 0 and scale 1, each plus the sum of the bindings of its field.
OffsetOf(node, hs) ==
    LET sum(target) == TargetSum(node, hs, target, Len(node.params))
    IN  [trans |-> <<sum("TranslationX"), sum("TranslationY"), sum("TranslationZ")>>,
         rot |-> <<sum("RotationX"), sum("RotationY"), sum("RotationZ")>>,
         scale |-> <<FAdd(One, sum("ScaleX")), FAdd(One, sum("ScaleY"))>>]

\* The last update emitted, for every node under node, the base Z plus the
\* sum of its ZSort bindings and the transform resolved from its base
\* transform and the offset transform, with the handles hs.
RECURSIVE EmitsFromBase(_, _, _)
EmitsFromBase(node, parent_transform, hs) ==
    \A z \in {FAdd(node.base_zsort, TargetSum(node, hs, "ZSort", Len(node.params)))} :
    \A self \in {Transform_mul(node.base_transform, Transform_from_io(OffsetOf(node, hs)))} :
    \A global \in {IF node.lock_to_root THEN self ELSE Transform_mul(self, parent_transform)} :
        /\ node.zsort = z
        /\ node.global_transform = global
        /\ \E i \in 1..Len(returned) :
              /\ returned[i].node = node.uuid
              /\ returned[i].frame = hist.updates
              /\ returned[i].zsort = z
              /\ returned[i].transform = global
        /\ Len(node.params) = 0 =>
              /\ z = node.base_zsort
              /\ self = node.base_transform
        /\ \A c \in 1..Len(node.children) : EmitsFromBase(node.children[c], global, hs)

\* C26: when an update has returned and no set call was made since it began,
\* every node emitted its base Z plus the sum of the current values of its
\* ZSort bindings, and a transform whose offset is translation 0, rotation 0
\* and scale 1 plus the sums of the current values of the bindings of each
\* field, whatever the updates and set calls before; a node without bindings
\* emitted its base Z and resolved its base transform.
C26_NoCarryOver ==
    (Returned /\ hist.quiet_cur) => EmitsFromBase(root_node, Transform_identity, handles)

\* C26 witness: two updates in a row returned with a set call before them
\* and none since the first began, for a node whose ZSort binding has a
\* value other than 0.0.
C26_Witness ==
    /\ Returned
    /\ hist.updates >= 2
    /\ hist.writes >= 1
    /\ hist.quiet /\ hist.quiet_cur
    /\ \E node \in NodesOf(root_node) :
          /\ \E m \in 1..Len(node.params) : node.params[m].target = "ZSort"
          /\ ~FEq(node.zsort, node.base_zsort)


\* ---------------------------------------------------------------------------
\* Transform::from_io alone: the matrix built from a serialized transform and
\* the point it sends a point to.
\* ---------------------------------------------------------------------------

FromIoScales == {One, F(2), Half}
FromIoOffsets == {Zero, One}
FromIoTransforms ==
    {[trans |-> <<tx, ty, tz>>, rot |-> <<Zero, Zero, Zero>>, scale |-> <<sx, sy>>] :
        tx \in FromIoOffsets, ty \in FromIoOffsets, tz \in FromIoOffsets,
        sx \in FromIoScales, sy \in FromIoScales}
FromIoPoints == {<<px, py, pz>> : px \in {Zero, One}, py \in {Zero, One}, pz \in {Zero, One}}

\* The matrix of a product without opaque rotations.
MatOf(transform) == IF Len(transform) = 0 THEN Matrix4_identity ELSE transform[1][2]

\* The affine map of a matrix whose last column is the translation: the
\* matrix times the column vector (px, py, pz, 1).
MatApply(M, p) ==
    [i \in 1..3 |-> Sum4(FMul(M[i][1], p[1]), FMul(M[i][2], p[2]),
                         FMul(M[i][3], p[3]), M[i][4])]

InitFromIo == InitWith({[params |-> <<>>, root_node |-> LoneNode]})

\* One call of Transform::from_io, and the image of one point under it.
FromIoCall(t, p) ==
    /\ probe = NoProbe
    /\ \E transform \in {Transform_from_io(t)} :
          probe' = [call |-> "from_io", t |-> t, point |-> p, transform |-> transform,
                    image |-> MatApply(MatOf(transform), p)]
    /\ UNCHANGED <<puppet, status, error, root_node, render_buffer, handles, pc, path,
                   pidx, acc, returned, hist>>

NextFromIo == \E t \in FromIoTransforms, p \in FromIoPoints : FromIoCall(t, p)

SpecFromIo == InitFromIo /\ [][NextFromIo]_vars

\* C27: the transform from_io builds from scale (sx, sy), zero rotation and
\* translation (tx, ty, tz) sends the point (px, py, pz) to
\* (sx*px + tx, sy*py + ty, pz + tz): scale first, then the translation,
\* which is not multiplied by the scale.
C27_ScaleThenTranslate ==
    (probe.call = "from_io") =>
        probe.image = <<FAdd(FMul(probe.t.scale[1], probe.point[1]), probe.t.trans[1]),
                        FAdd(FMul(probe.t.scale[2], probe.point[2]), probe.t.trans[2]),
                        FAdd(probe.point[3], probe.t.trans[3])>>


\* ---------------------------------------------------------------------------
\* The ordering behind the sortedness check, NaN included.
\* ---------------------------------------------------------------------------

\* A neighbour pair that descends under Ord::cmp (IEEE totalOrder).
TotalDescendingPair(points) ==
    \E k \in 1..(Len(points) - 1) : TotalF32_cmp(points[k], points[k + 1]) = "Greater"

\* C28: on every pair of neighbouring breakpoints, NaN included, the operator
\* > that is_sorted evaluates agrees with Ord::cmp of TotalF32, and an axis
\* whose breakpoints are not ascending under that total order (such as
\* [0.0, NaN, 1.0]) fails to lower with Invalid, so that no engine is built.
C28_TotalOrderSortedness ==
    \A i \in 1..2, a \in 1..2 :
        (Constructed /\ i \in 1..Len(puppet.params) /\ a \in AxesOf(puppet.params[i]))
            => \A points \in {puppet.params[i].axis_points[a]} :
                  /\ \A k \in 1..(Len(points) - 1) :
                        TotalF32_gt(points[k], points[k + 1])
                            <=> (TotalF32_cmp(points[k], points[k + 1]) = "Greater")
                  /\ TotalDescendingPair(points)
                        => /\ ParamAxis_lower(puppet.params[i], a) = Error_invalid
                           /\ NoEngine


\* ---------------------------------------------------------------------------
\* is_sorted alone.
\* ---------------------------------------------------------------------------

\* Sequences long enough to have a first, a middle and a last neighbour pair.
SortedLists == UNION {[1..n -> AxisVals] : n \in 0..(MaxLen + 1)}

InitSorted == InitWith({[params |-> <<>>, root_node |-> LoneNode]})

\* One call of is_sorted.
SortedCall(what) ==
    /\ probe = NoProbe
    /\ probe' = [call |-> "is_sorted", what |-> what, result |-> is_sorted(what)]
    /\ UNCHANGED <<puppet, status, error, root_node, render_buffer, handles, pc, path,
                   pidx, acc, returned, hist>>

NextSorted == \E what \in SortedLists : SortedCall(what)

SpecSorted == InitSorted /\ [][NextSorted]_vars

\* C29: is_sorted returns true exactly when no element is greater (the
\* operator > of the element type) than its immediate successor; so the empty
\* sequence, one-element sequences and sequences with equal neighbours are
\* sorted, and one descending neighbour pair at any position gives false.
C29_SortedIffNoDescent ==
    (probe.call = "is_sorted") =>
        /\ probe.result
              <=> ~\E k \in 1..(Len(probe.what) - 1) :
                     TotalF32_gt(probe.what[k], probe.what[k + 1])
        /\ Len(probe.what) <= 1 => probe.result
        /\ (\A k \in 1..(Len(probe.what) - 1) : FEq(probe.what[k], probe.what[k + 1]))
              => probe.result

\* A descending pair in the middle only, between two ascending pairs.
C29_Witness ==
    /\ probe.call = "is_sorted"
    /\ probe.what = <<Zero, F(2), One, F(2)>>
    /\ ~probe.result


\* ---------------------------------------------------------------------------
\* One value per handle within a pass.
\* ---------------------------------------------------------------------------

\* C30: within one update pass all bindings driven by the same handle, on one
\* node or on several, are evaluated against one and the same value of that
\* handle, even when a writer stores to the handle during the pass: the tree
\* and the commands of the pass are those of one assignment of values to the
\* handles.
C30_OneValuePerPass ==
    Returned => \E hs \in PossibleHandles : EmitsFromBase(root_node, Transform_identity, hs)

====
